---- MODULE Spec2Model ----
(***************************************************************************)
(* Rating and ranking engine of the World Cup squad tool: the manager      *)
(* assessment (src/src/analysis/manager_assessment.py), the home-advantage *)
(* multiplier (home_advantage.py), the team-rating composer                *)
(* (team_rating.py) and the Bradley-Terry power-ranking fit                *)
(* (power_ranking.py).                                                     *)
(*                                                                         *)
(* Numbers.  Python floats are modelled as fixed-point integers with four  *)
(* decimal digits: the real x is the integer x * SC.  Ratings that the     *)
(* code rounds to one decimal are still carried in that unit.  A decimal   *)
(* tie of round() is decided in Python by the binary representation of the *)
(* float; the model decides it by the variable tie, which a behaviour      *)
(* chooses once (0: the tie goes down, 1: it goes up).                     *)
(***************************************************************************)
EXTENDS Integers, Sequences, FiniteSets, TLC

VARIABLES
    tie,                          \* how round() decides a decimal tie
    \* ---- Manager (models/manager.py) and ManagerAssessment
    career_history,               \* Manager.career_history: Seq of CareerEntry
    honours,                      \* Manager.honours: Seq of Honour
    recent_tournament_results,    \* Manager.recent_tournament_results
    fifa_ranking_at_appointment,  \* Manager.fifa_ranking_at_appointment
    tenure_days,                  \* (date.today() - tenure_start).days, or None
    current_year,                 \* date.today().year
    current_fifa_ranking,         \* ManagerAssessment.current_fifa_ranking
    cache,                        \* the five lazily cached sub-score fields
    read,                         \* the last property read: what, value, fresh value
    changes,                      \* number of changes made to the record so far
    \* ---- arguments and results of the team-rating functions
    team_name,                    \* Team.name
    squad,                        \* Team.squad: Seq of Player
    all_teams,                    \* the field: Seq of Team
    assessment,                   \* TRUE when a ManagerAssessment is passed
    home_config,                  \* Optional[HomeAdvantageConfig]
    power_rating,                 \* Optional[float]
    base_rating,                  \* result of calculate_base_team_rating
    overall_rating,               \* result of calculate_overall_rating
    ha_rating,                    \* base_rating argument of the multiplier
    ha_multiplier,                \* result of calculate_home_advantage_multiplier
    \* ---- one call of fit_bradley_terry followed by _lambda_to_rating
    matches,                      \* argument matches: Seq of match records
    max_iterations,               \* argument max_iterations
    pc,                           \* position of the call
    connected,                    \* local: the component that is fitted
    team_matches,                 \* local: team -> the matches used for it
    lam,                          \* local: team -> strength
    prev_lam,                     \* local: strengths after the previous sweep
    iteration,                    \* number of sweeps completed
    max_change,                   \* local max_change, None while unbound
    strengths,                    \* the returned strength map
    ratings,                      \* result of _lambda_to_rating
    \* ---- one call of compute_power_rankings
    match_odds_list,              \* argument match_odds_list: Seq of MatchOdds
    wc_team_names,                \* argument wc_team_names: None or a set
    team_match_counts,            \* local: team -> number of valid matches
    rankings,                     \* the returned dict, None before the call
    \* ---- one Squad and its summary
    roster,                       \* Squad.players
    summary,                      \* result of squad_summary
    \* ---- one call of decimal_odds_to_implied_probs
    odds,                         \* the three decimal odds
    implied,                      \* the three probabilities returned
    \* ---- one call of _find_connected_component
    bfs_teams,                    \* argument teams
    bfs_order,                    \* the order in which teams is iterated
    bfs_matchups,                 \* argument matchups
    bfs_result,                   \* the set returned
    \* ---- one call of adjust_for_home_advantage
    adj_probs,                    \* arguments home_prob, away_prob, draw_prob
    adj_pair,                     \* the pair returned
    \* ---- one call of compare_teams
    cmp_args,                     \* the two teams, assessments and ratings
    cmp_rows                      \* the rows returned

recordVars == <<career_history, honours, recent_tournament_results,
                fifa_ranking_at_appointment, tenure_days, current_year,
                current_fifa_ranking>>
mgrVars == <<recordVars, cache, read, changes>>
teamVars == <<team_name, squad, all_teams, assessment, home_config,
              power_rating, base_rating, overall_rating>>
homeVars == <<ha_rating, ha_multiplier>>

fitVars == <<matches, max_iterations, pc, connected, team_matches, lam,
             prev_lam, iteration, max_change, strengths, ratings>>

powerVars == <<match_odds_list, wc_team_names, team_match_counts, rankings>>
squadVars == <<roster, summary>>
oddsVars == <<odds, implied>>
componentVars == <<bfs_teams, bfs_order, bfs_matchups, bfs_result>>
adjustVars == <<adj_probs, adj_pair>>
compareVars == <<cmp_args, cmp_rows>>
extraVars == <<adjustVars, compareVars>>
auxVars == <<powerVars, squadVars, oddsVars, componentVars, extraVars>>

vars == <<tie, mgrVars, teamVars, homeVars, fitVars, auxVars>>

-----------------------------------------------------------------------------
(* Fixed-point arithmetic                                                  *)

SC == 10^4

Min(a, b) == IF a <= b THEN a ELSE b
Max(a, b) == IF a >= b THEN a ELSE b
Abs(a) == IF a >= 0 THEN a ELSE -a
Clamp(lo, hi, x) == Max(lo, Min(hi, x))

\* None of an Optional value, and a present value.
None == <<>>
Some(v) == <<v>>
Val(o) == o[1]

RECURSIVE SeqSum(_)
SeqSum(s) == IF s = <<>> THEN 0 ELSE Head(s) + SeqSum(Tail(s))

\* round(n / d) for d > 0; a tie is decided by the variable tie.
RoundDiv(n, d) ==
    LET q == n \div d
        r == n % d
    IN  IF 2 * r > d THEN q + 1
        ELSE IF 2 * r < d THEN q
        ELSE q + tie

\* n / d for d > 0, to the nearest unit (internal arithmetic of the model).
DivR(n, d) == IF 2 * (n % d) >= d THEN n \div d + 1 ELSE n \div d

\* math.log of a fixed-point x > 0: x is brought into [1, 2) by halving or
\* doubling, and ln there is 2 * atanh((x - 1) / (x + 1)) by its series.
LnSeries(x) ==
    LET z  == DivR((x - SC) * SC, x + SC)
        z2 == DivR(z * z, SC)
        z3 == DivR(z * z2, SC)
        z5 == DivR(z3 * z2, SC)
        z7 == DivR(z5 * z2, SC)
    IN  DivR(2 * (105 * z + 35 * z3 + 21 * z5 + 15 * z7), 105)

LN2 == LnSeries(2 * SC)

RECURSIVE LnFx(_)
LnFx(x) ==
    IF x >= 2 * SC THEN LN2 + LnFx(DivR(x, 2))
    ELSE IF x < SC THEN LnFx(2 * x) - LN2
    ELSE LnSeries(x)

\* math.log of an integer n >= 1 (too large to scale by SC at once).
RECURSIVE LnInt(_)
LnInt(n) == IF n >= 2^16 THEN LN2 + LnInt(n \div 2) ELSE LnFx(n * SC)

\* math.exp of a fixed-point y: y = k * ln 2 + r with |r| <= ln(2) / 2, and
\* exp(r) by its series.
ExpFx(y) ==
    LET k  == (2 * y + LN2) \div (2 * LN2)
        r  == y - k * LN2
        r2 == DivR(r * r, SC)
        r3 == DivR(r2 * r, SC)
        r4 == DivR(r3 * r, SC)
        e  == SC + r + DivR(12 * r2 + 4 * r3 + r4, 24)
    IN  IF k < -30 THEN 0
        ELSE IF k < 0 THEN DivR(e, 2^(-k))
        ELSE e * (2^k)

-----------------------------------------------------------------------------
(* Manager: derived attributes (src/src/models/manager.py)                 *)

\* Manager.tenure_years, in tenths of a year:
\* round((today - start).days / 365.25, 1), 0.0 when the date does not parse.
tenure_years ==
    IF tenure_days = None THEN 0 ELSE RoundDiv(Val(tenure_days) * 40, 1461)

\* Manager.total_years_managing; an end_year of None is modelled as 0, which
\* the code's truth test treats alike.
total_years_managing ==
    SeqSum([i \in DOMAIN career_history |->
        LET e   == career_history[i]
            end == IF e.end_year # 0 THEN e.end_year ELSE current_year
        IN  Max(0, end - e.start_year)])

IsClubLevel(level) == level \in {"club_top", "club_mid", "club_lower"}

\* Manager.clubs_managed_count
clubs_managed_count ==
    Cardinality({career_history[i].team : i \in
        {j \in DOMAIN career_history :
            /\ career_history[j].role = "Head Coach"
            /\ IsClubLevel(career_history[j].level)}})

-----------------------------------------------------------------------------
(* ManagerAssessment (src/src/analysis/manager_assessment.py)              *)

HONOUR_POINTS(level) ==
    CASE level = "world_cup" -> 25
      [] level = "continental" -> 15
      [] level = "champions_league" -> 18
      [] level = "league" -> 10
      [] level = "cup" -> 5
      [] OTHER -> 5

\* LEVEL_WEIGHT, fixed-point
LEVEL_WEIGHT(level) ==
    CASE level = "international_senior" -> 30000
      [] level = "club_top" -> 25000
      [] level = "club_mid" -> 15000
      [] level = "club_lower" -> 10000
      [] level = "youth" -> 8000
      [] OTHER -> 10000

RESULT_SCORES(result) ==
    CASE result = "Winner" -> 10
      [] result = "Runner-up" -> 7
      [] result = "Third place" -> 6
      [] result = "Semi-finals" -> 5
      [] result = "Quarter-finals" -> 3
      [] result = "Round of 16" -> 1
      [] result = "Group Stage" -> -2
      [] OTHER -> 0

\* WEIGHTS, in hundredths
WEIGHTS(name) ==
    CASE name = "experience" -> 20
      [] name = "honours" -> 25
      [] name = "club_achievement" -> 15
      [] name = "tenure" -> 10
      [] name = "achievement_delta" -> 30

\* What experience_score computes when its cache field is None.
compute_experience_score ==
    LET years       == total_years_managing
        roles       == Len(career_history)
        years_pts   == Min(50 * SC, years * 25000)
        roles_pts   == Min(25 * SC, roles * 31250)
        caliber_sum == SeqSum([i \in DOMAIN career_history |->
            LET e        == career_history[i]
                end      == IF e.end_year # 0 THEN e.end_year ELSE 2026
                duration == Max(1, end - e.start_year)
            IN  LEVEL_WEIGHT(e.level) * Min(duration, 5)])
        caliber_pts == Min(25 * SC, (caliber_sum * 3) \div 2)
    IN  Min(100 * SC, years_pts + roles_pts + caliber_pts)

\* 0.6 ** k, fixed-point
RECURSIVE Pow06(_)
Pow06(k) == IF k = 0 THEN SC ELSE (Pow06(k - 1) * 6) \div 10

\* The honours loop with the exponent one too high (0.6 ** count)
honours_raw_pts_late(hs) ==
    SeqSum([i \in DOMAIN hs |->
        LET count == Cardinality({j \in 1..i : hs[j].level = hs[i].level})
            base  == HONOUR_POINTS(hs[i].level)
        IN  base * Pow06(count)])

\* The raw points of the honours loop: level_counts counts, per level, the
\* honours seen so far in list order.
honours_raw_pts(hs) ==
    SeqSum([i \in DOMAIN hs |->
        LET count == Cardinality({j \in 1..i : hs[j].level = hs[i].level})
            base  == HONOUR_POINTS(hs[i].level)
        IN  base * Pow06(count - 1)])

\* honours_score of the honours list hs, computed
honours_score_of(hs) ==
    IF hs = <<>> THEN 0
    ELSE Min(100 * SC, (honours_raw_pts(hs) * 100) \div 60)

\* What honours_score computes when its cache field is None.
compute_honours_score == honours_score_of(honours)

level_ranks(level) ==
    CASE level = "club_top" -> 40
      [] level = "international_senior" -> 35
      [] level = "club_mid" -> 20
      [] level = "club_lower" -> 10
      [] level = "youth" -> 5
      [] OTHER -> 0

RECURSIVE SetMax(_)
SetMax(S) ==
    IF S = {} THEN 0
    ELSE LET x == CHOOSE y \in S : \A z \in S : z <= y IN x

\* What club_achievement_score computes when its cache field is None.
compute_club_achievement_score ==
    IF career_history = <<>> THEN 0
    ELSE
        LET highest      == SetMax({level_ranks(career_history[i].level) :
                                        i \in DOMAIN career_history})
            unique_clubs == clubs_managed_count
            breadth_pts  == Min(30, unique_clubs * 6)
            intl_roles   == Cardinality({i \in DOMAIN career_history :
                               career_history[i].level = "international_senior"})
            intl_pts     == Min(30, intl_roles * 15)
        IN  Min(100, highest + breadth_pts + intl_pts) * SC

\* What tenure_score computes when its cache field is None:
\* 100 * exp(-((years - 4) ** 2) / (2 * 2.5 ** 2)), years in tenths here.
compute_tenure_score ==
    LET d == tenure_years - 40
    IN  IF Abs(d) > 500 THEN 0 ELSE 100 * ExpFx(-(d * d * 8))

\* What achievement_delta_score computes when its cache field is None.
compute_achievement_delta_score ==
    LET ranking_delta  == fifa_ranking_at_appointment - current_fifa_ranking
        ranking_pts    == Clamp(-30 * SC, 30 * SC, ranking_delta * 15000)
        tournament_sum == SeqSum([i \in DOMAIN recent_tournament_results |->
            LET res     == recent_tournament_results[i]
                recency == Max(5000, SC - (2026 - res.year) * 1500)
            IN  RESULT_SCORES(res.result) * recency])
        tournament_pts == Clamp(-20 * SC, 20 * SC, tournament_sum)
    IN  Clamp(-50 * SC, 50 * SC, ranking_pts + tournament_pts)

SubScores == {"experience", "honours", "club_achievement", "tenure",
              "achievement_delta"}

Compute(name) ==
    CASE name = "experience" -> compute_experience_score
      [] name = "honours" -> compute_honours_score
      [] name = "club_achievement" -> compute_club_achievement_score
      [] name = "tenure" -> compute_tenure_score
      [] name = "achievement_delta" -> compute_achievement_delta_score

\* A cached property: the field when it is set, else the computed value.
Property(c, name) == IF c[name] # None THEN Val(c[name]) ELSE Compute(name)

\* The cache after the property was read.
Filled(c, names) ==
    [n \in SubScores |->
        IF n \in names /\ c[n] = None THEN Some(Compute(n)) ELSE c[n]]

\* composite_score from the five property values s.
composite_of(s) ==
    LET delta_normalized == s["achievement_delta"] + 50 * SC
        raw == s["experience"] * WEIGHTS("experience")
             + s["honours"] * WEIGHTS("honours")
             + s["club_achievement"] * WEIGHTS("club_achievement")
             + s["tenure"] * WEIGHTS("tenure")
             + delta_normalized * WEIGHTS("achievement_delta")
    IN  RoundDiv(Clamp(0, 100 * SC * 100, raw), 100 * 1000) * 1000

\* composite_score of an assessment whose cache is c.
composite_score(c) == composite_of([n \in SubScores |-> Property(c, n)])

\* rating_multiplier with a span of 0.35 instead of 0.30
multiplier_of_wide(composite) ==
    RoundDiv(8500 * 1000 + (composite * 7) \div 2, 10 * 1000) * 10

\* rating_multiplier from the composite:
\* round(0.85 + (composite / 100) * 0.30, 3)
multiplier_of(composite) ==
    RoundDiv(8500 * 1000 + composite * 3, 10 * 1000) * 10

rating_multiplier(c) == multiplier_of(composite_score(c))

-----------------------------------------------------------------------------
(* Home advantage (src/src/analysis/home_advantage.py)                     *)

HOST_NATIONS == {"United States", "Canada", "Mexico"}

\* floor(a * b) of two fixed-point numbers, a >= 0, without overflow
MulFx(a, b) == (a \div SC) * b + ((a % SC) * b) \div SC

\* The multiplier without the test for a host nation
home_advantage_for_all(name, rating, config) ==
    IF config = None \/ ~Val(config).enabled THEN SC
    ELSE
        LET scale ==
                IF rating >= 70 * SC THEN SC
                ELSE IF rating >= 55 * SC
                    THEN 7000 + ((rating - 55 * SC) * 2) \div 100
                ELSE IF rating >= 40 * SC
                    THEN 4000 + ((rating - 40 * SC) * 2) \div 100
                ELSE 3000
        IN  SC + MulFx(scale, Val(config).base_advantage)

\* The multiplier with the steps of the scale taken strictly above 70, 55
\* and 40
home_advantage_strict_steps(name, rating, config) ==
    IF config = None \/ ~Val(config).enabled THEN SC
    ELSE IF name \notin HOST_NATIONS THEN SC
    ELSE
        LET scale ==
                IF rating > 70 * SC THEN SC
                ELSE IF rating > 55 * SC
                    THEN 7000 + ((rating - 55 * SC) * 2) \div 100
                ELSE IF rating > 40 * SC
                    THEN 4000 + ((rating - 40 * SC) * 2) \div 100
                ELSE 3000
        IN  SC + MulFx(scale, Val(config).base_advantage)

\* The multiplier without the scaling by strength
home_advantage_unscaled(name, rating, config) ==
    IF config = None \/ ~Val(config).enabled THEN SC
    ELSE IF name \notin HOST_NATIONS THEN SC
    ELSE SC + Val(config).base_advantage

\* calculate_home_advantage_multiplier; config is None or
\* Some([base_advantage, enabled]).
calculate_home_advantage_multiplier(name, rating, config) ==
    IF config = None \/ ~Val(config).enabled THEN SC
    ELSE IF name \notin HOST_NATIONS THEN SC
    ELSE
        LET scale ==
                IF rating >= 70 * SC THEN SC
                ELSE IF rating >= 55 * SC
                    THEN 7000 + ((rating - 55 * SC) * 2) \div 100
                ELSE IF rating >= 40 * SC
                    THEN 4000 + ((rating - 40 * SC) * 2) \div 100
                ELSE 3000
        IN  SC + MulFx(scale, Val(config).base_advantage)

-----------------------------------------------------------------------------
(* Team rating (src/src/analysis/team_rating.py, models/squad.py, team.py) *)

\* Team.total_market_value
total_market_value(sq) ==
    SeqSum([i \in DOMAIN sq |-> sq[i].market_value])

\* Squad.average_caps, fixed-point
average_caps(sq) ==
    IF sq = <<>> THEN 0
    ELSE (SeqSum([i \in DOMAIN sq |-> sq[i].appearances]) * SC) \div Len(sq)

\* Squad.position_breakdown, one position
position_count(sq, pos) ==
    Cardinality({i \in DOMAIN sq : sq[i].position = pos})

SeqMax(s) == SetMax({s[i] : i \in DOMAIN s})

\* _value_score; math.log1p(v) is the logarithm of 1 + v.
value_score(team_value, all_values) ==
    IF all_values = <<>> THEN 50 * SC
    ELSE
        LET max_val == SeqMax(all_values)
        IN  IF max_val <= 0 THEN 50 * SC
            ELSE
                LET log_val == LnInt(1 + team_value)
                    log_max == LnInt(1 + max_val)
                IN  IF log_max <= 0 THEN 50 * SC
                    ELSE RoundDiv(log_val * 1000, log_max) * 1000

\* _caps_score
caps_score(avg_caps) == Min(100 * SC, (avg_caps * 5) \div 2)

ideal(pos) ==
    CASE pos = "GK" -> 3
      [] pos = "DF" -> 8
      [] pos = "MF" -> 8
      [] pos = "FW" -> 7

\* _balance_score: expected = ideal * size / 26, and the deviation
\* abs(actual - expected) / max(1, expected) with both terms times 26.
balance_score(sq) ==
    LET size == Len(sq)
        penalty == SeqSum([k \in 1..4 |->
            LET pos    == <<"GK", "DF", "MF", "FW">>[k]
                actual == position_count(sq, pos)
            IN  (Abs(actual * 26 - ideal(pos) * size) * 25 * SC)
                    \div Max(26, ideal(pos) * size)])
    IN  IF size = 0 THEN 50 * SC
        ELSE Max(0, Min(100 * SC, 100 * SC - penalty))

\* calculate_base_team_rating with a power rating of 0 taken as absent
base_rating_truthy_power(sq, teams, power) ==
    LET all_values == [i \in DOMAIN teams |-> total_market_value(teams[i].squad)]
        v_score == value_score(total_market_value(sq), all_values)
        c_score == caps_score(average_caps(sq))
        b_score == balance_score(sq)
        base == IF power # None /\ Val(power) # 0
                THEN v_score * 35 + c_score * 20 + b_score * 15
                     + Val(power) * 30
                ELSE v_score * 50 + c_score * 30 + b_score * 20
    IN  RoundDiv(Clamp(0, 100 * SC * 100, base), 100 * 1000) * 1000

\* calculate_base_team_rating(team, all_teams, power_rating); teams is the
\* sequence of the squads of all_teams.
calculate_base_team_rating(sq, teams, power) ==
    LET all_values == [i \in DOMAIN teams |-> total_market_value(teams[i].squad)]
        v_score == value_score(total_market_value(sq), all_values)
        c_score == caps_score(average_caps(sq))
        b_score == balance_score(sq)
        base == IF power # None
                THEN v_score * 35 + c_score * 20 + b_score * 15
                     + Val(power) * 30
                ELSE v_score * 50 + c_score * 30 + b_score * 20
    IN  RoundDiv(Clamp(0, 100 * SC * 100, base), 100 * 1000) * 1000

\* calculate_overall_rating without the cap at 100
overall_rating_uncapped(name, sq, teams, mult, config, power) ==
    LET base0 == calculate_base_team_rating(sq, teams, power)
        base1 == IF mult # None THEN MulFx(base0, Val(mult)) ELSE base0
        base2 == MulFx(base1,
                       calculate_home_advantage_multiplier(name, base1, config))
    IN  RoundDiv(base2, 1000) * 1000

\* calculate_overall_rating with the home-advantage multiplier taken at the
\* base rating, before the manager multiplier is applied
overall_rating_home_at_base(name, sq, teams, mult, config, power) ==
    LET base0 == calculate_base_team_rating(sq, teams, power)
        base1 == IF mult # None THEN MulFx(base0, Val(mult)) ELSE base0
        base2 == MulFx(base1,
                       calculate_home_advantage_multiplier(name, base0, config))
    IN  RoundDiv(Min(100 * SC, base2), 1000) * 1000

\* calculate_overall_rating; mult is the assessment's rating_multiplier, or
\* None when no assessment is passed.
calculate_overall_rating(name, sq, teams, mult, config, power) ==
    LET base0 == calculate_base_team_rating(sq, teams, power)
        base1 == IF mult # None THEN MulFx(base0, Val(mult)) ELSE base0
        base2 == MulFx(base1,
                       calculate_home_advantage_multiplier(name, base1, config))
    IN  RoundDiv(Min(100 * SC, base2), 1000) * 1000

-----------------------------------------------------------------------------
(* Values of the variables a specification does not use                    *)

EmptyCache == [n \in SubScores |-> None]

NoRecord ==
    /\ career_history = <<>>
    /\ honours = <<>>
    /\ recent_tournament_results = <<>>
    /\ fifa_ranking_at_appointment = 50
    /\ tenure_days = None
    /\ current_year = 2026
    /\ current_fifa_ranking = 50

NoManager == NoRecord /\ cache = EmptyCache /\ read = None /\ changes = 0

NoTeam ==
    /\ team_name = ""
    /\ squad = <<>>
    /\ all_teams = <<>>
    /\ assessment = FALSE
    /\ home_config = None
    /\ power_rating = None
    /\ base_rating = None
    /\ overall_rating = None

NoHome == ha_rating = 0 /\ ha_multiplier = None

EmptyMap == [t \in {} |-> 0]

NoPower ==
    /\ match_odds_list = <<>>
    /\ wc_team_names = None
    /\ team_match_counts = EmptyMap
    /\ rankings = None

NoSquad == roster = <<>> /\ summary = None

NoOdds == odds = <<>> /\ implied = None

NoComponent ==
    /\ bfs_teams = {}
    /\ bfs_order = <<>>
    /\ bfs_matchups = EmptyMap
    /\ bfs_result = None

NoAdjust == adj_probs = <<>> /\ adj_pair = None

NoCompare == cmp_args = <<>> /\ cmp_rows = None

NoExtra == NoAdjust /\ NoCompare

NoAux == NoPower /\ NoSquad /\ NoOdds /\ NoComponent /\ NoExtra

NoFit ==
    /\ matches = <<>>
    /\ max_iterations = 0
    /\ pc = "idle"
    /\ connected = {}
    /\ team_matches = EmptyMap
    /\ lam = EmptyMap
    /\ prev_lam = EmptyMap
    /\ iteration = 0
    /\ max_change = None
    /\ strengths = None
    /\ ratings = None

-----------------------------------------------------------------------------
(* One ManagerAssessment object and the Manager record it refers to        *)

MaxChanges == 2

HonourPool == {[level |-> "world_cup"], [level |-> "league"]}
CareerPool ==
    {[team |-> "Ajax", role |-> "Head Coach", start_year |-> 2015,
      end_year |-> 2019, level |-> "club_top"]}
ResultPool == {[result |-> "Winner", year |-> 2024]}
RankingPool == {10}

Properties == SubScores \cup {"composite", "multiplier"}

\* The value a property read returns from cache c.
ReadValue(c, p) ==
    CASE p \in SubScores -> Property(c, p)
      [] p = "composite" -> composite_score(c)
      [] p = "multiplier" -> rating_multiplier(c)

\* The fields a property read sets.
ReadFills(p) == IF p \in SubScores THEN {p} ELSE SubScores

InitAssessment ==
    /\ tie = 0
    /\ career_history = <<>>
    /\ honours = <<>>
    /\ recent_tournament_results = <<>>
    /\ fifa_ranking_at_appointment = 50
    /\ tenure_days = Some(800)
    /\ current_year = 2026
    /\ current_fifa_ranking = 50
    /\ cache = EmptyCache
    /\ read = None
    /\ changes = 0
    /\ NoTeam
    /\ NoHome
    /\ NoFit
    /\ NoAux

\* Reading one of the properties of the assessment.
ReadProperty(p) ==
    /\ read' = Some([property |-> p,
                     value |-> ReadValue(cache, p),
                     fresh |-> ReadValue(EmptyCache, p)])
    /\ cache' = Filled(cache, ReadFills(p))
    /\ UNCHANGED <<tie, recordVars, changes, teamVars, homeVars, fitVars, auxVars>>

ReadExperience == ReadProperty("experience")
ReadHonours == ReadProperty("honours")
ReadClubAchievement == ReadProperty("club_achievement")
ReadTenure == ReadProperty("tenure")
ReadAchievementDelta == ReadProperty("achievement_delta")
ReadComposite == ReadProperty("composite")
ReadMultiplier == ReadProperty("multiplier")

Changed ==
    /\ changes < MaxChanges
    /\ changes' = changes + 1
    /\ UNCHANGED <<tie, tenure_days, current_year, cache, read, teamVars,
                   homeVars, fitVars, auxVars>>

AppendHonour ==
    /\ \E h \in HonourPool : honours' = Append(honours, h)
    /\ Changed
    /\ UNCHANGED <<career_history, recent_tournament_results,
                   fifa_ranking_at_appointment, current_fifa_ranking>>

AppendCareerEntry ==
    /\ \E e \in CareerPool : career_history' = Append(career_history, e)
    /\ Changed
    /\ UNCHANGED <<honours, recent_tournament_results,
                   fifa_ranking_at_appointment, current_fifa_ranking>>

AppendTournamentResult ==
    /\ \E r \in ResultPool :
          recent_tournament_results' = Append(recent_tournament_results, r)
    /\ Changed
    /\ UNCHANGED <<career_history, honours,
                   fifa_ranking_at_appointment, current_fifa_ranking>>

SetRankingAtAppointment ==
    /\ \E r \in RankingPool \ {fifa_ranking_at_appointment} :
          fifa_ranking_at_appointment' = r
    /\ Changed
    /\ UNCHANGED <<career_history, honours, recent_tournament_results,
                   current_fifa_ranking>>

SetCurrentRanking ==
    /\ \E r \in RankingPool \ {current_fifa_ranking} :
          current_fifa_ranking' = r
    /\ Changed
    /\ UNCHANGED <<career_history, honours, recent_tournament_results,
                   fifa_ranking_at_appointment>>

NextAssessment ==
    \/ ReadExperience
    \/ ReadHonours
    \/ ReadClubAchievement
    \/ ReadTenure
    \/ ReadAchievementDelta
    \/ ReadComposite
    \/ ReadMultiplier
    \/ AppendHonour
    \/ AppendCareerEntry
    \/ AppendTournamentResult
    \/ SetRankingAtAppointment
    \/ SetCurrentRanking

SpecAssessment == InitAssessment /\ [][NextAssessment]_vars

\* C1: every value read from the assessment (a sub-score, the composite or
\* the multiplier), whatever changes were made to the record before, equals
\* the value a freshly constructed assessment of the current record returns.
C1_ReadIsFresh == read # None => Val(read).value = Val(read).fresh

-----------------------------------------------------------------------------
(* The rating functions applied to a team: calculate_base_team_rating and  *)
(* calculate_overall_rating, with or without a fresh ManagerAssessment     *)

MaxSquad == 1

Player(pos, value, caps) ==
    [position |-> pos, market_value |-> value, appearances |-> caps]

PlayerPool ==
    {Player("GK", 0, 0), Player("DF", 500000, 12),
     Player("MF", 80000000, 45), Player("FW", 150000000, 120)}

RECURSIVE Repeat(_, _)
Repeat(p, n) == IF n = 0 THEN <<>> ELSE <<p>> \o Repeat(p, n - 1)

\* A 26-player squad in the ideal proportions 3 : 8 : 8 : 7.
FullSquad ==
    Repeat(Player("GK", 20000000, 60), 3) \o Repeat(Player("DF", 40000000, 60), 8)
    \o Repeat(Player("MF", 80000000, 60), 8) \o Repeat(Player("FW", 60000000, 60), 7)

SquadPool ==
    UNION {[1..n -> PlayerPool] : n \in 0..MaxSquad} \cup {FullSquad}

Team(name, sq) == [name |-> name, squad |-> sq]

\* The fields: empty, the team alone, the team among stronger teams.
FieldPool(name, sq) ==
    {<<>>, <<Team(name, sq)>>, <<Team(name, sq), Team("France", FullSquad)>>}

Config(adv, on) == Some([base_advantage |-> adv, enabled |-> on])

ConfigPool == {None, Config(440, TRUE), Config(440, FALSE)}

PowerPool == {None, Some(0), Some(100 * SC)}

NamePool == {"Mexico", "Brazil"}

CareerEntry(team, role, start, end, level) ==
    [team |-> team, role |-> role, start_year |-> start, end_year |-> end,
     level |-> level]

LongCareer ==
    <<CareerEntry("Porto", "Head Coach", 2002, 2008, "club_top"),
      CareerEntry("Lyon", "Head Coach", 2008, 2014, "club_top"),
      CareerEntry("Milan", "Head Coach", 2014, 2020, "club_top"),
      CareerEntry("Spain", "Head Coach", 2020, 0, "international_senior")>>

ManyHonours ==
    <<[level |-> "world_cup"], [level |-> "champions_league"],
      [level |-> "world_cup"], [level |-> "continental"],
      [level |-> "league"], [level |-> "league"], [level |-> "cup"]>>

Result(res, year) == [result |-> res, year |-> year]

ResultsPool ==
    {<<>>,
     <<Result("Winner", 2024), Result("Winner", 2026), Result("Runner-up", 2022)>>,
     <<Result("Group Stage", 2026), Result("Group Stage", 2025),
       Result("Group Stage", 2024), Result("Group Stage", 2023),
       Result("Group Stage", 2022), Result("Group Stage", 2021),
       Result("Group Stage", 2020), Result("Group Stage", 2019),
       Result("Group Stage", 2018), Result("Group Stage", 2017),
       Result("Group Stage", 2016), Result("Group Stage", 2015),
       Result("Group Stage", 2014), Result("Group Stage", 2013),
       Result("Group Stage", 2012), Result("Group Stage", 2011)>>}

MaxHonours == 2

HonourLevels == {"world_cup", "continental", "champions_league", "league", "cup"}

\* Every list of at most MaxHonours honours
HonourLists ==
    UNION {[1..n -> [level : HonourLevels]] : n \in 0..MaxHonours}

\* The manager records of the assessments that are rated: records that
\* differ in every part, and records that differ in the honours alone.
ManagerPool ==
    [career_history : {<<>>, LongCareer},
     honours : {<<>>, ManyHonours},
     recent_tournament_results : ResultsPool,
     rankings : {<<50, 50>>, <<1, 100>>, <<100, 1>>},
     tenure_days : {None, Some(1461), Some(14610)}]
    \cup
    [career_history : {<<>>},
     honours : HonourLists,
     recent_tournament_results : {<<>>},
     rankings : {<<50, 50>>},
     tenure_days : {Some(1461)}]

Weakest ==
    [career_history |-> <<>>, honours |-> <<>>,
     recent_tournament_results |->
        CHOOSE r \in ResultsPool : Len(r) > 3,
     rankings |-> <<1, 100>>, tenure_days |-> Some(14610)]

Strongest ==
    [career_history |-> LongCareer, honours |-> ManyHonours,
     recent_tournament_results |->
        CHOOSE r \in ResultsPool : Len(r) = 3,
     rankings |-> <<100, 1>>, tenure_days |-> Some(1461)]

HasRecord(m) ==
    /\ career_history = m.career_history
    /\ honours = m.honours
    /\ recent_tournament_results = m.recent_tournament_results
    /\ fifa_ranking_at_appointment = m.rankings[1]
    /\ current_fifa_ranking = m.rankings[2]
    /\ tenure_days = m.tenure_days
    /\ current_year = 2026

\* Either every manager record with one team, or every team with the
\* weakest manager, the strongest manager or none.
InitRating ==
    /\ tie \in {0, 1}
    /\ cache = EmptyCache /\ read = None /\ changes = 0
    /\ base_rating = None
    /\ overall_rating = None
    /\ NoHome
    /\ NoFit
    /\ NoAux
    /\ \/ /\ assessment = TRUE
          /\ \E m \in ManagerPool : HasRecord(m)
          /\ team_name = "Mexico"
          /\ squad = FullSquad
          /\ all_teams = <<Team("Mexico", FullSquad)>>
          /\ home_config = Config(440, TRUE)
          /\ power_rating \in {None, Some(100 * SC)}
       \/ /\ \/ assessment = FALSE /\ NoRecord
             \/ assessment = TRUE /\ \E m \in {Weakest, Strongest} : HasRecord(m)
          /\ team_name \in NamePool
          /\ squad \in SquadPool
          /\ all_teams \in FieldPool(team_name, squad)
          /\ home_config \in ConfigPool
          /\ power_rating \in PowerPool

CalculateBaseTeamRating ==
    /\ base_rating' = Some(calculate_base_team_rating(squad, all_teams,
                                                      power_rating))
    /\ UNCHANGED <<tie, mgrVars, team_name, squad, all_teams, assessment,
                   home_config, power_rating, overall_rating, homeVars,
                   fitVars, auxVars>>

\* Reading assessment.rating_multiplier sets the five cache fields.
CalculateOverallRating ==
    /\ overall_rating' = Some(calculate_overall_rating(team_name, squad,
            all_teams,
            IF assessment THEN Some(rating_multiplier(cache)) ELSE None,
            home_config, power_rating))
    /\ cache' = IF assessment THEN Filled(cache, SubScores) ELSE cache
    /\ UNCHANGED <<tie, recordVars, read, changes, team_name, squad,
                   all_teams, assessment, home_config, power_rating,
                   base_rating, homeVars, fitVars, auxVars>>

NextRating ==
    \/ CalculateBaseTeamRating
    \/ CalculateOverallRating

SpecRating == InitRating /\ [][NextRating]_vars

InRange(x, lo, hi) == lo <= x /\ x <= hi

\* C2: the manager composite score, the base team rating and the overall
\* team rating are each within [0, 100], for every manager record, team,
\* field, assessment, home-advantage config and power rating.
C2_ScoresInRange ==
    /\ InRange(composite_score(cache), 0, 100 * SC)
    /\ base_rating # None => InRange(Val(base_rating), 0, 100 * SC)
    /\ overall_rating # None => InRange(Val(overall_rating), 0, 100 * SC)

\* A team whose rating reaches the cap: both ratings computed, with an
\* assessment, and the overall rating is 100.
C2_Witness ==
    /\ assessment
    /\ base_rating # None
    /\ overall_rating = Some(100 * SC)
    /\ composite_score(cache) > 50 * SC

\* Every composite score an assessment can have: 0.0, 0.1, ... 100.0
CompositeGrid == {k * 1000 : k \in 0..1000}

\* C3: the rating multiplier of every assessment is within [0.85, 1.15];
\* an assessment with a higher or equal composite score has a higher or
\* equal multiplier; composite 0 gives 0.85, 50 gives 1.00, 100 gives 1.15.
C3_Multiplier ==
    assessment =>
        LET c == composite_score(cache)
            m == rating_multiplier(cache)
        IN  /\ InRange(m, 8500, 11500)
            /\ \A c2 \in CompositeGrid :
                  /\ c2 >= c => multiplier_of(c2) >= m
                  /\ c2 <= c => multiplier_of(c2) <= m
            /\ multiplier_of(0) = 8500
            /\ multiplier_of(50 * SC) = SC
            /\ multiplier_of(100 * SC) = 11500

\* An assessment whose multiplier has been read and lies above 1.1.
C3_Witness ==
    /\ assessment
    /\ overall_rating # None
    /\ rating_multiplier(cache) > 11000

\* The raw honours points as the sum, per level, of base * 0.6^(k-1) over
\* the k-th honour of that level.
HonoursByLevel(hs) ==
    SeqSum([n \in 1..5 |->
        LET level == <<"world_cup", "continental", "champions_league",
                       "league", "cup">>[n]
            held  == Cardinality({i \in DOMAIN hs : hs[i].level = level})
        IN  SeqSum([k \in 1..held |-> HONOUR_POINTS(level) * Pow06(k - 1)])])

OneHonour(level) == <<[level |-> level]>>
TwoHonours(level) == <<[level |-> level], [level |-> level]>>

\* C4: two honours of one level score strictly more than one such honour
\* and strictly less than twice as much; the k-th honour of a level adds
\* base * 0.6^(k-1) to the raw total, which is then rescaled by 100/60 and
\* capped at 100.
C4_HonoursDiminish ==
    /\ honours_raw_pts(honours) = HonoursByLevel(honours)
    /\ compute_honours_score
          = Min(100 * SC, (HonoursByLevel(honours) * 100) \div 60)
    /\ \A level \in HonourLevels :
          honours = TwoHonours(level) =>
            /\ compute_honours_score > honours_score_of(OneHonour(level))
            /\ compute_honours_score < 2 * honours_score_of(OneHonour(level))

\* A manager with exactly two honours of one level, rated.
C4_Witness ==
    /\ \E level \in HonourLevels : honours = TwoHonours(level)
    /\ cache["honours"] # None

-----------------------------------------------------------------------------
(* calculate_home_advantage_multiplier applied to a name, a rating and a   *)
(* config                                                                  *)

MaxBaseRating == 100

\* Base ratings from 0 to MaxBaseRating in steps of one half.
RatingGrid == {r * 5000 : r \in 0..(2 * MaxBaseRating)}

HomeConfigPool ==
    ConfigPool \cup {Config(800, TRUE), Config(0, TRUE)}

HomeNamePool == HOST_NATIONS \cup {"Brazil", "mexico", ""}

InitHome ==
    /\ tie = 0
    /\ NoManager
    /\ team_name \in HomeNamePool
    /\ home_config \in HomeConfigPool
    /\ squad = <<>> /\ all_teams = <<>> /\ assessment = FALSE
    /\ power_rating = None /\ base_rating = None /\ overall_rating = None
    /\ ha_rating \in RatingGrid
    /\ ha_multiplier = None
    /\ NoFit
    /\ NoAux

CalculateHomeAdvantageMultiplier ==
    /\ ha_multiplier = None
    /\ ha_multiplier' = Some(calculate_home_advantage_multiplier(
                                team_name, ha_rating, home_config))
    /\ UNCHANGED <<tie, mgrVars, teamVars, ha_rating, fitVars, auxVars>>

NextHome == CalculateHomeAdvantageMultiplier

SpecHome == InitHome /\ [][NextHome]_vars

\* C5: for a team name that is not a host nation the multiplier returned
\* is exactly 1.0, for every base rating and every config.
C5_NonHostIsOne ==
    (ha_multiplier # None /\ team_name \notin HOST_NATIONS)
        => Val(ha_multiplier) = SC

\* A non-host rated 70 or more under an enabled config.
C5_Witness ==
    /\ ha_multiplier # None
    /\ team_name \notin HOST_NATIONS
    /\ home_config # None /\ Val(home_config).enabled
    /\ Val(home_config).base_advantage > 0
    /\ ha_rating >= 70 * SC

HomeMultiplier(rating) ==
    calculate_home_advantage_multiplier(team_name, rating, home_config)

\* The multiplier never decreases when the base rating increases.
HomeMonotone ==
    \A r2 \in RatingGrid :
        r2 >= ha_rating => HomeMultiplier(r2) >= Val(ha_multiplier)

\* C6 as claimed: for a host team the multiplier at base rating 80 is
\* strictly greater than at base rating 40, and the multiplier never
\* decreases when the base rating increases.
C6_AsClaimed ==
    (ha_multiplier # None /\ team_name \in HOST_NATIONS) =>
        /\ HomeMultiplier(80 * SC) > HomeMultiplier(40 * SC)
        /\ HomeMonotone

\* C6 amended: for a host team under an enabled config with a positive
\* base advantage, the multiplier at base rating 80 is strictly greater
\* than at 40; for a host team under every config whose base advantage is
\* not negative, the multiplier never decreases when the rating increases.
C6_HostScaling ==
    (ha_multiplier # None /\ team_name \in HOST_NATIONS) =>
        /\ (/\ home_config # None
            /\ Val(home_config).enabled
            /\ Val(home_config).base_advantage > 0)
              => HomeMultiplier(80 * SC) > HomeMultiplier(40 * SC)
        /\ (home_config = None \/ Val(home_config).base_advantage >= 0)
              => HomeMonotone

\* A host under an enabled config, rated between 40 and 55.
C6_Witness ==
    /\ ha_multiplier # None
    /\ team_name \in HOST_NATIONS
    /\ home_config # None /\ Val(home_config).enabled
    /\ Val(home_config).base_advantage > 0
    /\ ha_rating > 40 * SC /\ ha_rating < 55 * SC
    /\ Val(ha_multiplier) > SC

-----------------------------------------------------------------------------
(* Bradley-Terry fit (src/src/analysis/power_ranking.py)                   *)

\* Defaults of the parameters tolerance, prior_strength and damping.
tolerance == 1
prior_strength == 2 * SC
damping == SC \div 2

\* The strength given to a team outside the fitted component: 0.1
default_strength == SC \div 10

\* a * b of two fixed-point numbers, to the nearest unit.
MulR(a, b) == (a \div SC) * b + DivR((a % SC) * b, SC)

RECURSIVE SumOver(_)
SumOver(f) ==
    IF DOMAIN f = {} THEN 0
    ELSE LET t == CHOOSE u \in DOMAIN f : TRUE
         IN  f[t] + SumOver([u \in DOMAIN f \ {t} |-> f[u]])

RECURSIVE SetToSeq(_)
SetToSeq(S) ==
    IF S = {} THEN <<>>
    ELSE LET t == CHOOSE u \in S : TRUE IN <<t>> \o SetToSeq(S \ {t})

\* The set teams built from the matches.
teams_of(ms) ==
    {ms[i].team_a : i \in DOMAIN ms} \cup {ms[i].team_b : i \in DOMAIN ms}

\* A matchups map that records only the second team as neighbour of the
\* first.
matchups_one_way(ms) ==
    [t \in teams_of(ms) |->
        {ms[i].team_b : i \in {j \in DOMAIN ms : ms[j].team_a = t}}]

\* The adjacency map matchups: each team of a match is a neighbour of the
\* other.
matchups_of(ms) ==
    [t \in teams_of(ms) |->
        {ms[i].team_b : i \in {j \in DOMAIN ms : ms[j].team_a = t}}
        \cup {ms[i].team_a : i \in {j \in DOMAIN ms : ms[j].team_b = t}}]

\* matchups.get(node, set())
neighbors(matchups, node) ==
    IF node \in DOMAIN matchups THEN matchups[node] ELSE {}

\* The inner loop of _find_connected_component: the component collected
\* from a queue.
RECURSIVE bfs(_, _, _, _)
bfs(queue, visited, component, matchups) ==
    IF queue = <<>> THEN component
    ELSE LET node == Head(queue)
         IN  IF node \in visited
             THEN bfs(Tail(queue), visited, component, matchups)
             ELSE bfs(Tail(queue)
                        \o SetToSeq(neighbors(matchups, node)
                                        \ (visited \cup {node})),
                      visited \cup {node}, component \cup {node}, matchups)

\* The list components, for the teams visited in the given order.
RECURSIVE components_from(_, _, _)
components_from(order, visited, matchups) ==
    IF order = <<>> THEN <<>>
    ELSE IF Head(order) \in visited
         THEN components_from(Tail(order), visited, matchups)
         ELSE LET c == bfs(<<Head(order)>>, visited, {}, matchups)
              IN  <<c>> \o components_from(Tail(order), visited \cup c,
                                           matchups)

\* A component finder that takes every team as connected.
find_component_all(order, matchups) == {order[i] : i \in DOMAIN order}

\* A component finder that returns the first component it collects.
find_first_component(order, matchups) ==
    IF order = <<>> THEN {}
    ELSE components_from(order, {}, matchups)[1]

\* _find_connected_component; order is the order in which the set teams is
\* iterated.  max(components, key=len) returns the first of the largest.
find_connected_component(order, matchups) ==
    IF order = <<>> THEN {}
    ELSE LET cs == components_from(order, {}, matchups)
             best == CHOOSE i \in DOMAIN cs :
                        /\ \A j \in DOMAIN cs :
                              Cardinality(cs[j]) <= Cardinality(cs[i])
                        /\ \A j \in 1..(i - 1) :
                              Cardinality(cs[j]) < Cardinality(cs[i])
         IN  cs[best]

\* The orders in which a set can be iterated.
Orders(S) ==
    {f \in [1..Cardinality(S) -> S] :
        \A i, j \in 1..Cardinality(S) : i # j => f[i] # f[j]}

\* team_matches: for each connected team the matches between connected
\* teams it plays in.
team_matches_of(ms, conn) ==
    [t \in conn |->
        SelectSeq(ms, LAMBDA m : /\ m.team_a \in conn /\ m.team_b \in conn
                                 /\ t \in {m.team_a, m.team_b})]

\* A prob_win that is prob_a for both teams of a match.
prob_win_same(m, team) == m.prob_a

prob_win(m, team) == IF m.team_a = team THEN m.prob_a ELSE SC - m.prob_a

opponent(m, team) == IF m.team_a = team THEN m.team_b ELSE m.team_a

numerator(tm, team) ==
    prior_strength \div 2
    + SeqSum([i \in DOMAIN tm[team] |->
                DivR(prob_win(tm[team][i], team) * tm[team][i].weight, SC)])

denominator(tm, l, team) ==
    prior_strength \div 2
    + SeqSum([i \in DOMAIN tm[team] |->
                LET o == opponent(tm[team][i], team)
                IN  DivR(tm[team][i].weight * l[o], l[team] + l[o])])

\* The body of the loop over the teams (lines 184-205): the damped update
\* of one team from the strengths l.
team_update(tm, l, team) ==
    LET n == numerator(tm, team)
        d == denominator(tm, l, team)
    IN  IF d > 0
        THEN DivR(damping * DivR(n * SC, d) + (SC - damping) * l[team], SC)
        ELSE l[team]

\* new_lam: the damped update of every team from the strengths l of the
\* previous sweep.
new_lam_of(tm, l) == [team \in DOMAIN l |-> team_update(tm, l, team)]

\* Strengths read in place: the new strength of a team that was already
\* updated in this sweep, the previous strength of the others.
strengths_read_latest(l, new) ==
    [t \in DOMAIN l |-> IF t \in DOMAIN new THEN new[t] ELSE l[t]]

\* The strengths the body reads while new_lam is being filled: lam, which
\* is assigned only after the loop over the teams (line 211).
strengths_read(l, new) == l

\* The loop over the teams (lines 181-205), in the order in which the set
\* connected is iterated; new is new_lam so far.
RECURSIVE sweep(_, _, _, _)
sweep(order, tm, l, new) ==
    IF order = <<>> THEN new
    ELSE LET team == Head(order)
             v    == team_update(tm, strengths_read(l, new), team)
         IN  sweep(Tail(order), tm, l, new @@ (team :> v))

\* math.log(max(v, 1e-10))
log_floor(v) == IF v >= 1 THEN LnFx(v) ELSE -10 * LnFx(10 * SC)

\* A norm factor that is the arithmetic mean of the strengths.
norm_factor_arith(nl) == DivR(SumOver(nl), Cardinality(DOMAIN nl))

\* norm_factor = exp(log_mean), for a non-empty new_lam
norm_factor(nl) ==
    ExpFx(DivR(SumOver([t \in DOMAIN nl |-> log_floor(nl[t])]),
               Cardinality(DOMAIN nl)))

\* A normalisation that subtracts the norm factor instead of dividing by it
normalize_centered(nl) == [t \in DOMAIN nl |-> nl[t] - norm_factor(nl)]

normalize(nl) ==
    LET nf == norm_factor(nl)
    IN  IF nf > 0 THEN [t \in DOMAIN nl |-> DivR(nl[t] * SC, nf)] ELSE nl

\* max_change, in units of the tolerance (1e-4), rounded down.
max_change_of(l, prev) ==
    SetMax({(Abs(l[t] - prev[t]) * SC) \div Max(prev[t], 1) : t \in DOMAIN l})

\* The returned map: the fitted strengths and the default for the rest.
with_defaults(l, disconnected) ==
    [t \in DOMAIN l \cup disconnected |->
        IF t \in disconnected THEN default_strength ELSE l[t]]

SetMin(S) == CHOOSE x \in S : \A y \in S : x <= y

\* _lambda_to_rating with the logarithms mapped to the range 0-100
lambda_to_rating_full_range(l) ==
    IF DOMAIN l = {} THEN EmptyMap
    ELSE LET log_lam == [t \in DOMAIN l |-> log_floor(l[t])]
             min_log == SetMin({log_lam[t] : t \in DOMAIN l})
             max_log == SetMax({log_lam[t] : t \in DOMAIN l})
             spread  == max_log - min_log
         IN  IF spread <= 0 THEN [t \in DOMAIN l |-> 50 * SC]
             ELSE [t \in DOMAIN l |->
                     RoundDiv((log_lam[t] - min_log) * 1000, spread)
                        * (SC \div 10)]

\* _lambda_to_rating
lambda_to_rating(l) ==
    IF DOMAIN l = {} THEN EmptyMap
    ELSE LET log_lam == [t \in DOMAIN l |-> log_floor(l[t])]
             min_log == SetMin({log_lam[t] : t \in DOMAIN l})
             max_log == SetMax({log_lam[t] : t \in DOMAIN l})
             spread  == max_log - min_log
         IN  IF spread <= 0 THEN [t \in DOMAIN l |-> 50 * SC]
             ELSE [t \in DOMAIN l |->
                     RoundDiv(100 * spread + (log_lam[t] - min_log) * 850,
                              spread) * (SC \div 10)]

-----------------------------------------------------------------------------
(* One call of fit_bradley_terry on a match list, followed by              *)
(* _lambda_to_rating on the strengths it returns                           *)

MaxMatches == 3
MaxIterations == 8

Match(a, b, p, w) == [team_a |-> a, team_b |-> b, prob_a |-> p, weight |-> w]

\* Matches of five teams: effective probabilities within [0.05, 0.95],
\* weights 0.9 (the default of a competition) and 1.3 (a major tournament).
MatchPool ==
    << Match("A", "B", 5000, 9000),  Match("A", "B", 5000, 13000),
       Match("A", "B", 9500, 9000),  Match("A", "B", 9500, 13000),
       Match("B", "A", 500, 9000),
       Match("A", "C", 5000, 9000),  Match("A", "C", 7000, 13000),
       Match("B", "C", 5000, 9000),  Match("B", "C", 2000, 13000),
       Match("D", "E", 5000, 9000),  Match("D", "E", 9500, 13000) >>

\* The match lists of up to MaxMatches matches of the pool.  The sums of
\* the fit are integer sums here, so the order of a list is immaterial and
\* the lists are taken in the order of the pool.
MatchLists ==
    UNION {{[i \in 1..n |-> MatchPool[f[i]]] :
              f \in {g \in [1..n -> DOMAIN MatchPool] :
                        \A i \in 1..(n - 1) : g[i] <= g[i + 1]}} :
           n \in 0..MaxMatches}

IterationCaps == {0, 1, MaxIterations}

InitFit ==
    /\ tie = 0
    /\ NoManager
    /\ NoTeam
    /\ NoHome
    /\ NoAux
    /\ matches \in MatchLists
    /\ max_iterations \in IterationCaps
    /\ pc = "start"
    /\ connected = {}
    /\ team_matches = EmptyMap
    /\ lam = EmptyMap
    /\ prev_lam = EmptyMap
    /\ iteration = 0
    /\ max_change = None
    /\ strengths = None
    /\ ratings = None

\* Lines 149-177: the teams, the adjacency, the component, the initial
\* strengths and the per-team match lists.
FitPrepare ==
    /\ pc = "start"
    /\ \E order \in Orders(teams_of(matches)) :
          connected' = find_connected_component(order, matchups_of(matches))
    /\ lam' = [t \in connected' |-> SC]
    /\ prev_lam' = lam'
    /\ team_matches' = team_matches_of(matches, connected')
    /\ pc' = "loop"
    /\ UNCHANGED <<tie, mgrVars, teamVars, homeVars, auxVars, matches,
                   max_iterations,
                   iteration, max_change, strengths, ratings>>

\* One iteration of the loop (lines 178-224), with the teams updated in
\* the order in which the set connected is iterated.  With no team at all
\* the division by len(new_lam) raises ZeroDivisionError.
FitSweep ==
    /\ pc = "loop"
    /\ iteration < max_iterations
    /\ IF connected = {}
       THEN /\ pc' = "raised"
            /\ UNCHANGED <<lam, prev_lam, iteration, max_change>>
       ELSE \E order \in Orders(connected) :
            LET l2 == normalize(sweep(order, team_matches, lam, EmptyMap))
                mc == max_change_of(l2, prev_lam)
            IN  /\ lam' = l2
                /\ prev_lam' = l2
                /\ max_change' = Some(mc)
                /\ iteration' = iteration + 1
                /\ pc' = IF mc < tolerance THEN "finish" ELSE "loop"
    /\ UNCHANGED <<tie, mgrVars, teamVars, homeVars, auxVars, matches,
                   max_iterations,
                   connected, team_matches, strengths, ratings>>

\* The else branch of the loop (lines 225-227): the warning formats
\* max_change, which is unbound when no sweep was run.
FitExhausted ==
    /\ pc = "loop"
    /\ iteration >= max_iterations
    /\ pc' = IF max_change = None THEN "raised" ELSE "finish"
    /\ UNCHANGED <<tie, mgrVars, teamVars, homeVars, auxVars, matches,
                   max_iterations,
                   connected, team_matches, lam, prev_lam, iteration,
                   max_change, strengths, ratings>>

\* Lines 229-233: the default for the disconnected teams, and the return.
FitReturn ==
    /\ pc = "finish"
    /\ strengths' = Some(with_defaults(lam, teams_of(matches) \ connected))
    /\ pc' = "done"
    /\ UNCHANGED <<tie, mgrVars, teamVars, homeVars, auxVars, matches,
                   max_iterations,
                   connected, team_matches, lam, prev_lam, iteration,
                   max_change, ratings>>

LambdaToRating ==
    /\ pc = "done"
    /\ ratings = None
    /\ ratings' = Some(lambda_to_rating(Val(strengths)))
    /\ UNCHANGED <<tie, mgrVars, teamVars, homeVars, auxVars, matches,
                   max_iterations,
                   pc, connected, team_matches, lam, prev_lam, iteration,
                   max_change, strengths>>

NextFit ==
    \/ FitPrepare
    \/ FitSweep
    \/ FitExhausted
    \/ FitReturn
    \/ LambdaToRating

SpecFit == InitFit /\ [][NextFit]_vars

AllEqual(f) == \A t, u \in DOMAIN f : f[t] = f[u]

\* A round-robin in which every pair of the teams meets, each pair in the
\* same number of matches of one weight, with every probability 0.5.
BalancedRoundRobin(ms) ==
    LET ts == teams_of(ms)
        meetings(t, u) ==
            Cardinality({i \in DOMAIN ms :
                            {ms[i].team_a, ms[i].team_b} = {t, u}})
    IN  /\ ms # <<>>
        /\ \A i \in DOMAIN ms :
              /\ ms[i].prob_a = SC \div 2
              /\ ms[i].weight = ms[1].weight
              /\ ms[i].team_a # ms[i].team_b
        /\ \A t, u \in ts :
              t # u => meetings(t, u) = meetings(ms[1].team_a, ms[1].team_b)

\* C7: when the matches are a balanced round-robin with every probability
\* 0.5, all teams have the same strength after every sweep, the returned
\* strengths are the same for every team, and _lambda_to_rating gives
\* every team the same rating.
C7_BalancedIsEqual ==
    BalancedRoundRobin(matches) =>
        /\ AllEqual(lam)
        /\ strengths # None =>
              /\ DOMAIN Val(strengths) = teams_of(matches)
              /\ AllEqual(Val(strengths))
        /\ ratings # None =>
              /\ DOMAIN Val(ratings) = teams_of(matches)
              /\ AllEqual(Val(ratings))

\* A balanced round-robin of three teams, fitted and rated.
C7_Witness ==
    /\ BalancedRoundRobin(matches)
    /\ Cardinality(teams_of(matches)) = 3
    /\ iteration >= 1
    /\ ratings # None

\* The only teams are a and b, and every match has probability 0.95 for a.
AllForFavourite(ms, a, b) ==
    /\ ms # <<>>
    /\ a # b
    /\ \A i \in DOMAIN ms :
          \/ ms[i].team_a = a /\ ms[i].team_b = b /\ ms[i].prob_a = 9500
          \/ ms[i].team_a = b /\ ms[i].team_b = a /\ ms[i].prob_a = SC - 9500

\* C8: when two teams only meet each other and every match has effective
\* probability 0.95 for the first, the returned strength of the first is
\* strictly larger than that of the second, and so is its rating.
C8_FavouriteIsStronger ==
    \A a, b \in teams_of(matches) :
        AllForFavourite(matches, a, b) =>
            /\ strengths # None => Val(strengths)[a] > Val(strengths)[b]
            /\ ratings # None => Val(ratings)[a] > Val(ratings)[b]

\* Such a pair, met in both orders of team_a and team_b, fitted by more
\* than one sweep and rated.
C8_Witness ==
    /\ \E a, b \in teams_of(matches) :
          /\ AllForFavourite(matches, a, b)
          /\ \E i, j \in DOMAIN matches :
                matches[i].team_a = a /\ matches[j].team_a = b
    /\ iteration > 1
    /\ ratings # None

\* The teams joined to team t by a chain of matches.
RECURSIVE Reachable(_, _)
Reachable(ms, S) ==
    LET S2 == S \cup {u \in teams_of(ms) :
                        \E i \in DOMAIN ms :
                            /\ u \in {ms[i].team_a, ms[i].team_b}
                            /\ {ms[i].team_a, ms[i].team_b} \cap S # {}}
    IN  IF S2 = S THEN S ELSE Reachable(ms, S2)

\* The connected components of the match graph with the most teams.
LargestComponents(ms) ==
    LET cs == {Reachable(ms, {t}) : t \in teams_of(ms)}
    IN  {c \in cs : \A d \in cs : Cardinality(d) <= Cardinality(c)}

\* C9: once the component is chosen it is a largest connected component of
\* the match graph; a team outside it is absent from the strength map
\* during the fit, no match of such a team is in any team's match list,
\* and in the returned map its strength is exactly 0.1.
C9_OutsideGetsDefault ==
    (pc \notin {"idle", "start"} /\ matches # <<>>) =>
        LET outside == teams_of(matches) \ connected
        IN  /\ connected \in LargestComponents(matches)
            /\ DOMAIN lam = connected
            /\ DOMAIN prev_lam = connected
            /\ DOMAIN team_matches = connected
            /\ \A t \in connected : \A i \in DOMAIN team_matches[t] :
                  /\ team_matches[t][i].team_a \notin outside
                  /\ team_matches[t][i].team_b \notin outside
            /\ strengths # None =>
                  \A t \in outside : Val(strengths)[t] = SC \div 10

\* A fit of three connected teams returned, with two teams outside.
C9_Witness ==
    /\ strengths # None
    /\ iteration > 1
    /\ Cardinality(connected) = 3
    /\ Cardinality(teams_of(matches) \ connected) = 2

RECURSIVE Product(_)
Product(f) ==
    IF DOMAIN f = {} THEN SC
    ELSE LET t == CHOOSE u \in DOMAIN f : TRUE
         IN  MulR(Product([u \in DOMAIN f \ {t} |-> f[u]]), f[t])

\* The precision of a product of fixed-point strengths: 0.002
ProductPrecision == SC \div 500

\* C10: after every sweep the product of the strengths of the fitted teams
\* is 1, to the precision of the fixed-point arithmetic.
C10_GeometricMeanOne ==
    iteration >= 1 => Abs(Product(lam) - SC) <= ProductPrecision

\* Two sweeps done on three teams whose strengths differ.
C10_Witness ==
    /\ iteration >= 2
    /\ Cardinality(connected) = 3
    /\ ~AllEqual(lam)

-----------------------------------------------------------------------------
(* compute_power_rankings: from odds and scores to power rankings          *)
(* (src/src/analysis/power_ranking.py).  Decimal odds are carried in       *)
(* tenths: 1.0 is 10.                                                      *)

HOME_ADVANTAGE_PROB == 700
RESULT_WEIGHT == 6000
default_max_iterations == 500

COMPETITION_WEIGHTS(competition) ==
    CASE competition = "world_cup_2022" -> 13000
      [] competition = "nations_league" -> 12000
      [] competition = "copa_america_2024" -> 13000
      [] competition = "afcon_2024" -> 11000
      [] competition = "afcon_2023" -> 11000
      [] competition = "asian_cup" -> 10000
      [] OTHER -> 9000

\* The probabilities without the division by their total: 1 / odds each.
implied_probs_raw(home_odds, draw_odds, away_odds) ==
    << DivR(SC * 10, home_odds), DivR(SC * 10, draw_odds),
       DivR(SC * 10, away_odds) >>

\* decimal_odds_to_implied_probs, for odds that are not 0.  The raw values
\* 1 / odds are carried exactly, as multiples of 1 / (home * draw * away),
\* and each quotient raw / total is rounded once.
decimal_odds_to_implied_probs(home_odds, draw_odds, away_odds) ==
    LET raw_home == draw_odds * away_odds
        raw_draw == home_odds * away_odds
        raw_away == home_odds * draw_odds
        total    == raw_home + raw_draw + raw_away
    IN  << DivR(raw_home * SC, total), DivR(raw_draw * SC, total),
           DivR(raw_away * SC, total) >>

\* adjust_for_home_advantage: the neutral-venue pair (team_a, team_b)
adjust_for_home_advantage(home_prob, away_prob, draw_prob) ==
    LET neutral_home   == Max(500, home_prob - HOME_ADVANTAGE_PROB)
        neutral_away   == away_prob + HOME_ADVANTAGE_PROB \div 2
        total_decisive == neutral_home + neutral_away
    IN  IF total_decisive <= 0 THEN << SC \div 2, SC \div 2 >>
        ELSE << DivR(neutral_home * SC, total_decisive),
                DivR(neutral_away * SC, total_decisive) >>

\* _score_to_result; a score is None or Some(goals).
score_to_result(home_score, away_score) ==
    IF home_score = None \/ away_score = None THEN None
    ELSE IF Val(home_score) > Val(away_score) THEN Some(SC)
    ELSE IF Val(home_score) < Val(away_score) THEN Some(0)
    ELSE Some(SC \div 2)

\* A filter that looks at the home odds only.
odds_valid_home_only(m) == m.home_odds > 10

\* The test of lines 290-291, negated: the match is kept.
odds_valid(m) == ~(m.home_odds <= 10 \/ m.draw_odds <= 10 \/ m.away_odds <= 10)

\* effective_prob_a without the clamp of line 317
effective_prob_unclamped(m) ==
    LET probs       == decimal_odds_to_implied_probs(m.home_odds, m.draw_odds,
                                                     m.away_odds)
        odds_prob_a == adjust_for_home_advantage(probs[1], probs[3],
                                                 probs[2])[1]
        result_a    == score_to_result(m.home_score, m.away_score)
    IN  IF result_a # None
        THEN DivR(RESULT_WEIGHT * Val(result_a)
                  + (SC - RESULT_WEIGHT) * odds_prob_a, SC)
        ELSE odds_prob_a

\* effective_prob_a of a kept match (lines 293-317)
effective_prob_a(m) ==
    LET probs       == decimal_odds_to_implied_probs(m.home_odds, m.draw_odds,
                                                     m.away_odds)
        odds_prob_a == adjust_for_home_advantage(probs[1], probs[3],
                                                 probs[2])[1]
        result_a    == score_to_result(m.home_score, m.away_score)
        blended     == IF result_a # None
                       THEN DivR(RESULT_WEIGHT * Val(result_a)
                                 + (SC - RESULT_WEIGHT) * odds_prob_a, SC)
                       ELSE odds_prob_a
    IN  Max(500, Min(9500, blended))

\* bt_matches: one record per kept match, in the order of the input
bt_matches_of(list) ==
    LET kept == SelectSeq(list, odds_valid)
    IN  [i \in DOMAIN kept |->
            [team_a |-> kept[i].home_team, team_b |-> kept[i].away_team,
             prob_a |-> effective_prob_a(kept[i]),
             weight |-> COMPETITION_WEIGHTS(kept[i].competition)]]

\* team_match_counts: a kept match counts once for its home team and once
\* for its away team.
team_match_counts_of(list) ==
    LET kept == SelectSeq(list, odds_valid)
    IN  [t \in {kept[i].home_team : i \in DOMAIN kept}
               \cup {kept[i].away_team : i \in DOMAIN kept} |->
            Cardinality({i \in DOMAIN kept : kept[i].home_team = t})
            + Cardinality({i \in DOMAIN kept : kept[i].away_team = t})]

\* The loop of fit_bradley_terry run to its end, for a non-empty component:
\* the strengths, the number of sweeps and the last max_change.
RECURSIVE fit_loop(_, _, _, _)
fit_loop(tm, l, k, cap) ==
    CHOOSE end \in
        {LET mc == max_change_of(l2, l)
         IN  IF mc < tolerance \/ k + 1 >= cap
             THEN [lam |-> l2, iteration |-> k + 1, max_change |-> mc]
             ELSE fit_loop(tm, l2, k + 1, cap) :
            l2 \in {normalize(new_lam_of(tm, l))}} : TRUE

\* Lines 167-233 of fit_bradley_terry for a non-empty component conn and
\* max_iterations = cap >= 1.
fit_component(ms, conn, cap) ==
    CHOOSE fit \in
        {[connected |-> conn, team_matches |-> tm, lam |-> end.lam,
          iteration |-> end.iteration, max_change |-> end.max_change,
          returned |-> with_defaults(end.lam, teams_of(ms) \ conn)] :
            <<tm, end>> \in
                {<<m, fit_loop(m, [t \in conn |-> SC], 0, cap)>> :
                    m \in {team_matches_of(ms, conn)}}} : TRUE

\* The components _find_connected_component can return for the matches,
\* over the orders in which the set teams can be iterated.
component_choices(ms) ==
    {find_connected_component(order, matchups_of(ms)) :
        order \in Orders(teams_of(ms))}

\* fit_bradley_terry(ms, max_iterations = cap) for a non-empty match list
\* and cap >= 1: one record for each component that can be chosen.
fit_bradley_terry(ms, cap) ==
    {fit_component(ms, conn, cap) : conn \in component_choices(ms)}

\* The entry of a requested team without data, with the rating of an
\* average team.
default_ranking_average ==
    [rating |-> 50 * SC, lambda_param |-> 0, matches_used |-> 0]

\* The PowerRanking given to a requested team without data
default_ranking == [rating |-> 25 * SC, lambda_param |-> 0, matches_used |-> 0]

\* Steps 4 and 5 of compute_power_rankings (lines 344-364); wanted is
\* None or Some(set of names), and an empty set is treated as None.
build_rankings(rts, l, counts, wanted) ==
    LET filter == wanted # None /\ Val(wanted) # {}
        rated  == {t \in DOMAIN rts : ~filter \/ t \in Val(wanted)}
        names  == IF filter THEN rated \cup Val(wanted) ELSE rated
    IN  [t \in names |->
            IF t \in rated
            THEN [rating |-> rts[t],
                  lambda_param |-> IF t \in DOMAIN l THEN l[t] ELSE 0,
                  matches_used |-> IF t \in DOMAIN counts THEN counts[t]
                                   ELSE 0]
            ELSE default_ranking]

-----------------------------------------------------------------------------
(* One call of compute_power_rankings on a list of MatchOdds and a set of  *)
(* requested names                                                         *)

MaxOddsMatches == 2

MatchOdds(home, away, h, d, a, hs, as, competition) ==
    [home_team |-> home, away_team |-> away, home_odds |-> h, draw_odds |-> d,
     away_odds |-> a, home_score |-> hs, away_score |-> as,
     competition |-> competition]

\* Matches with and without scores, one with a single score and one of a
\* strong favourite that won; in the last three one of the odds is 1.0 or
\* less.
OddsPool ==
    { MatchOdds("A", "B", 15, 40, 60, Some(2), Some(0), "world_cup_2022"),
      MatchOdds("A", "C", 11, 90, 210, Some(3), Some(0), "copa_america_2024"),
      MatchOdds("B", "A", 30, 32, 24, Some(1), None, "asian_cup"),
      MatchOdds("B", "C", 25, 32, 28, None, None, "friendly"),
      MatchOdds("C", "A", 21, 34, 34, Some(1), Some(1), "nations_league"),
      MatchOdds("D", "E", 18, 35, 45, Some(0), Some(3), "afcon_2024"),
      MatchOdds("A", "B", 10, 40, 60, Some(1), Some(0), "asian_cup"),
      MatchOdds("D", "E", 20, 9, 30, None, None, "friendly"),
      MatchOdds("D", "A", 30, 30, 10, Some(0), Some(1), "friendly") }

OddsLists == UNION {[1..n -> OddsPool] : n \in 0..MaxOddsMatches}

\* Requested names: none, an empty set, teams with and without matches.
WantedPool ==
    {None, Some({}), Some({"A"}), Some({"A", "Z"}), Some({"D", "E"})}

InitPower ==
    /\ tie \in {0, 1}
    /\ NoManager
    /\ NoTeam
    /\ NoHome
    /\ NoFit
    /\ NoExtra
    /\ NoSquad
    /\ NoOdds
    /\ NoComponent
    /\ match_odds_list \in OddsLists
    /\ wc_team_names \in WantedPool
    /\ team_match_counts = EmptyMap
    /\ rankings = None

\* The whole call.  With no kept match it returns {} at line 333, before
\* the fit; otherwise the fit runs with its default parameters.
ComputePowerRankings ==
    /\ rankings = None
    /\ LET bt == bt_matches_of(match_odds_list)
           counts == team_match_counts_of(match_odds_list)
       IN  /\ team_match_counts' = counts
           /\ IF bt = <<>>
              THEN /\ rankings' = Some(EmptyMap)
                   /\ UNCHANGED fitVars
              ELSE \E fit \in fit_bradley_terry(bt, default_max_iterations) :
                    LET rts == lambda_to_rating(fit.returned)
                    IN  /\ matches' = bt
                        /\ max_iterations' = default_max_iterations
                        /\ pc' = "done"
                        /\ connected' = fit.connected
                        /\ team_matches' = fit.team_matches
                        /\ lam' = fit.lam
                        /\ prev_lam' = fit.lam
                        /\ iteration' = fit.iteration
                        /\ max_change' = Some(fit.max_change)
                        /\ strengths' = Some(fit.returned)
                        /\ ratings' = Some(rts)
                        /\ rankings' = Some(build_rankings(rts, fit.returned,
                                                counts, wc_team_names))
    /\ UNCHANGED <<tie, mgrVars, teamVars, homeVars, match_odds_list,
                   wc_team_names, squadVars, oddsVars, componentVars,
                   extraVars>>

NextPower == ComputePowerRankings

SpecPower == InitPower /\ [][NextPower]_vars

\* The positions of the input whose three odds are all above 1.0
KeptPositions ==
    {i \in DOMAIN match_odds_list :
        /\ match_odds_list[i].home_odds > 10
        /\ match_odds_list[i].draw_odds > 10
        /\ match_odds_list[i].away_odds > 10}

\* The k-th kept position
KeptAt(k) ==
    CHOOSE i \in KeptPositions :
        Cardinality({j \in KeptPositions : j <= i}) = k

\* C11: the matches given to the fit are the matches of the input whose
\* three odds are all above 1.0, in their order, and only these are
\* counted; when there is none the call returns an empty result and the
\* fit is not run.
C11_InvalidOddsDiscarded ==
    rankings # None =>
        /\ Len(matches) = Cardinality(KeptPositions)
        /\ \A k \in DOMAIN matches :
              /\ matches[k].team_a = match_odds_list[KeptAt(k)].home_team
              /\ matches[k].team_b = match_odds_list[KeptAt(k)].away_team
        /\ \A t \in DOMAIN team_match_counts :
              team_match_counts[t] =
                  Cardinality({i \in KeptPositions :
                                  match_odds_list[i].home_team = t})
                  + Cardinality({i \in KeptPositions :
                                  match_odds_list[i].away_team = t})
        /\ KeptPositions = {} =>
              /\ Val(rankings) = EmptyMap
              /\ strengths = None
              /\ pc = "idle"
              /\ iteration = 0

\* A call on two matches, one kept and one discarded for its draw or away
\* odds, and a call on discarded matches only.
C11_Witness ==
    /\ rankings # None
    /\ Len(match_odds_list) = 2
    /\ \/ /\ Cardinality(KeptPositions) = 1
          /\ \E i \in DOMAIN match_odds_list :
                /\ match_odds_list[i].home_odds > 10
                /\ i \notin KeptPositions
          /\ strengths # None
       \/ /\ KeptPositions = {}
          /\ wc_team_names = None

\* The teams of the kept matches
ObservedTeams ==
    {match_odds_list[i].home_team : i \in KeptPositions}
    \cup {match_odds_list[i].away_team : i \in KeptPositions}

DefaultsGiven ==
    \A t \in Val(wc_team_names) \ ObservedTeams :
        /\ t \in DOMAIN Val(rankings)
        /\ Val(rankings)[t].rating = 25 * SC
        /\ Val(rankings)[t].lambda_param = 0
        /\ Val(rankings)[t].matches_used = 0

\* C12 as claimed: every requested team that is in no kept match is in the
\* result with rating 25, strength 0 and no match used.
C12_AsClaimed ==
    (rankings # None /\ wc_team_names # None) => DefaultsGiven

\* C12 amended: when at least one match is kept, every requested team that
\* is in no kept match is in the result with rating 25, strength 0 and no
\* match used; when no match is kept the result is empty.
C12_DefaultForUnobserved ==
    (rankings # None /\ wc_team_names # None) =>
        IF KeptPositions # {} THEN DefaultsGiven
        ELSE Val(rankings) = EmptyMap

\* A call with kept matches and a requested team that is only in a
\* discarded match or in none.
C12_Witness ==
    /\ rankings # None
    /\ wc_team_names # None
    /\ KeptPositions # {}
    /\ Val(wc_team_names) \ ObservedTeams # {}
    /\ Val(wc_team_names) \cap ObservedTeams # {}

-----------------------------------------------------------------------------
(* The iteration cap and the empty match list of fit_bradley_terry         *)

\* C13 as claimed: the fit never runs more than max_iterations sweeps, it
\* does not go on after a sweep whose max_change is below the tolerance,
\* and it never raises, for every match list and every cap.
C13_AlwaysReturns ==
    /\ iteration <= max_iterations
    /\ (pc = "loop" /\ max_change # None) => Val(max_change) >= tolerance
    /\ pc # "raised"

\* C18 as claimed: called with an empty match list the fit does not raise,
\* and what it returns is the empty map.
C18_EmptyListReturnsEmpty ==
    matches = <<>> =>
        /\ pc # "raised"
        /\ strengths # None => Val(strengths) = EmptyMap

-----------------------------------------------------------------------------
(* Squad (src/src/models/squad.py) and squad_summary                       *)
(* (src/src/analysis/composition.py)                                       *)

size(ps) == Len(ps)

position_breakdown(ps) ==
    [pos \in {"GK", "DF", "MF", "FW"} |-> position_count(ps, pos)]

position_detail_breakdown(ps) ==
    [d \in {ps[i].position_detail : i \in DOMAIN ps} |->
        Cardinality({i \in DOMAIN ps : ps[i].position_detail = d})]

\* An average age that is 26 for an empty squad.
average_age_typical(ps) ==
    IF ps = <<>> THEN 26 * SC
    ELSE DivR(SeqSum([i \in DOMAIN ps |-> ps[i].age]) * SC, Len(ps))

average_age(ps) ==
    IF ps = <<>> THEN 0
    ELSE DivR(SeqSum([i \in DOMAIN ps |-> ps[i].age]) * SC, Len(ps))

age_bucket(age) ==
    IF age < 21 THEN "U21"
    ELSE IF age <= 25 THEN "21-25"
    ELSE IF age <= 29 THEN "26-29"
    ELSE "30+"

age_distribution(ps) ==
    [b \in {"U21", "21-25", "26-29", "30+"} |->
        Cardinality({i \in DOMAIN ps : age_bucket(ps[i].age) = b})]

\* min(players, key): the first player whose key is the least, or None.
first_min(ps, key(_)) ==
    IF ps = <<>> THEN None
    ELSE Some(ps[CHOOSE i \in DOMAIN ps :
                    /\ \A j \in DOMAIN ps : key(ps[i]) <= key(ps[j])
                    /\ \A j \in 1..(i - 1) : key(ps[j]) > key(ps[i])])

\* max(players, key): the first player whose key is the greatest, or None.
first_max(ps, key(_)) ==
    IF ps = <<>> THEN None
    ELSE Some(ps[CHOOSE i \in DOMAIN ps :
                    /\ \A j \in DOMAIN ps : key(ps[i]) >= key(ps[j])
                    /\ \A j \in 1..(i - 1) : key(ps[j]) < key(ps[i])])

youngest(ps) == first_min(ps, LAMBDA p : p.age)
oldest(ps) == first_max(ps, LAMBDA p : p.age)
most_valuable(ps) == first_max(ps, LAMBDA p : p.market_value)
most_experienced(ps) == first_max(ps, LAMBDA p : p.appearances)
least_experienced(ps) == first_min(ps, LAMBDA p : p.appearances)

total_value(ps) == SeqSum([i \in DOMAIN ps |-> ps[i].market_value])

\* Squad.average_value, to the nearest euro
average_value(ps) == IF ps = <<>> THEN 0 ELSE DivR(total_value(ps), Len(ps))

value_by_position(ps) ==
    [pos \in {ps[i].position : i \in DOMAIN ps} |->
        SeqSum([i \in DOMAIN ps |->
                   IF ps[i].position = pos THEN ps[i].market_value ELSE 0])]

club_diversity(ps) ==
    [c \in {ps[i].club : i \in DOMAIN ps} |->
        Cardinality({i \in DOMAIN ps : ps[i].club = c})]

unique_clubs_count(ps) == Cardinality({ps[i].club : i \in DOMAIN ps})

\* Player.market_value_display: the unit and the number printed
market_value_display(p) ==
    IF p.market_value >= 1000000
    THEN <<"m", RoundDiv(p.market_value, 10000)>>
    ELSE IF p.market_value >= 1000
    THEN <<"k", RoundDiv(p.market_value, 1000)>>
    ELSE <<"", p.market_value>>

\* The text shown for a selector: "N/A" when it returns no player
shown(sel, detail(_)) ==
    IF sel # None THEN <<Val(sel).name, detail(Val(sel))>> ELSE <<"N/A">>

\* One decimal of a fixed-point number: round(x, 1)
round1(x) == RoundDiv(x, SC \div 10) * (SC \div 10)

\* squad_summary(team) for a team of the given name and squad
squad_summary(name, ps) ==
    [team |-> name,
     squad_size |-> size(ps),
     position_breakdown |-> position_breakdown(ps),
     position_details |-> position_detail_breakdown(ps),
     average_age |-> round1(average_age(ps)),
     age_distribution |-> age_distribution(ps),
     youngest |-> shown(youngest(ps), LAMBDA p : p.age),
     oldest |-> shown(oldest(ps), LAMBDA p : p.age),
     total_value |-> total_value(ps),
     average_value |-> average_value(ps),
     value_by_position |-> value_by_position(ps),
     most_valuable |-> shown(most_valuable(ps), market_value_display),
     unique_clubs |-> unique_clubs_count(ps),
     club_breakdown |-> club_diversity(ps),
     average_caps |-> round1(average_caps(ps)),
     most_experienced |-> shown(most_experienced(ps),
                                LAMBDA p : p.appearances)]

MaxRoster == 3

RosterPlayer(name, pos, detail, age, club, value, caps) ==
    [name |-> name, position |-> pos, position_detail |-> detail,
     age |-> age, club |-> club, market_value |-> value,
     appearances |-> caps]

RosterPool ==
    { RosterPlayer("Ana", "GK", "GK", 19, "Ajax", 900, 0),
      RosterPlayer("Bo", "DF", "CB", 25, "Ajax", 500000, 12),
      RosterPlayer("Cy", "MF", "CDM", 29, "Porto", 80000000, 45),
      RosterPlayer("Di", "FW", "ST", 34, "Lyon", 150000000, 120) }

Rosters == UNION {[1..n -> RosterPool] : n \in 0..MaxRoster}

InitSquad ==
    /\ tie \in {0, 1}
    /\ NoManager
    /\ NoTeam
    /\ NoHome
    /\ NoFit
    /\ NoExtra
    /\ NoPower
    /\ NoOdds
    /\ NoComponent
    /\ roster \in Rosters
    /\ summary = None

SquadSummary ==
    /\ summary = None
    /\ summary' = Some(squad_summary(team_name, roster))
    /\ UNCHANGED <<tie, mgrVars, teamVars, homeVars, fitVars, powerVars,
                   roster, oddsVars, componentVars, extraVars>>

NextSquad == SquadSummary

SpecSquad == InitSquad /\ [][NextSquad]_vars

\* C14: for an empty roster the size, the four position counts, the four
\* age buckets, the mean age, the total and mean value, the mean caps and
\* the number of clubs are 0, the four selectors return no player, and the
\* summary shows these values and "N/A" for the selectors.
C14_EmptyRosterIsNeutral ==
    (summary # None /\ roster = <<>>) =>
        /\ size(roster) = 0
        /\ \A pos \in {"GK", "DF", "MF", "FW"} :
              position_breakdown(roster)[pos] = 0
        /\ \A b \in {"U21", "21-25", "26-29", "30+"} :
              age_distribution(roster)[b] = 0
        /\ average_age(roster) = 0
        /\ total_value(roster) = 0
        /\ average_value(roster) = 0
        /\ average_caps(roster) = 0
        /\ unique_clubs_count(roster) = 0
        /\ youngest(roster) = None /\ oldest(roster) = None
        /\ most_valuable(roster) = None /\ most_experienced(roster) = None
        /\ Val(summary).squad_size = 0
        /\ Val(summary).average_age = 0
        /\ Val(summary).total_value = 0
        /\ Val(summary).average_value = 0
        /\ Val(summary).average_caps = 0
        /\ Val(summary).unique_clubs = 0
        /\ \A pos \in {"GK", "DF", "MF", "FW"} :
              Val(summary).position_breakdown[pos] = 0
        /\ \A b \in {"U21", "21-25", "26-29", "30+"} :
              Val(summary).age_distribution[b] = 0
        /\ Val(summary).youngest = <<"N/A">>
        /\ Val(summary).oldest = <<"N/A">>
        /\ Val(summary).most_valuable = <<"N/A">>
        /\ Val(summary).most_experienced = <<"N/A">>

\* The summary of an empty roster.
C14_Witness ==
    /\ summary # None
    /\ roster = <<>>
    /\ Val(summary).club_breakdown = EmptyMap

-----------------------------------------------------------------------------
(* Reproducibility of compute_power_rankings                               *)

\* C15 as claimed, for the power rankings: the strengths returned for a
\* match list are the same in every run, that is for every order in which
\* the set of teams can be iterated.
C15_SameInputSameResult ==
    strengths # None =>
        \A fit \in fit_bradley_terry(matches, max_iterations) :
            fit.returned = Val(strengths)

-----------------------------------------------------------------------------
(* One call of decimal_odds_to_implied_probs on three decimal odds         *)

MaxOdds == 25

\* Odds above 1.0, in tenths: 1.1 to MaxOdds / 10, and three long odds.
OddsGrid == 11..MaxOdds \cup {80, 150, 460}

InitOdds ==
    /\ tie = 0
    /\ NoManager
    /\ NoTeam
    /\ NoHome
    /\ NoFit
    /\ NoExtra
    /\ NoPower
    /\ NoSquad
    /\ NoComponent
    /\ odds \in [home_odds : OddsGrid, draw_odds : OddsGrid,
                 away_odds : OddsGrid]
    /\ implied = None

DecimalOddsToImpliedProbs ==
    /\ implied = None
    /\ implied' = Some(decimal_odds_to_implied_probs(odds.home_odds,
                            odds.draw_odds, odds.away_odds))
    /\ UNCHANGED <<tie, mgrVars, teamVars, homeVars, fitVars, powerVars,
                   squadVars, odds, componentVars, extraVars>>

NextOdds == DecimalOddsToImpliedProbs

SpecOdds == InitOdds /\ [][NextOdds]_vars

\* p / q = b / a, that is p * a = q * b, for probabilities p and q that
\* are each rounded to the nearest unit.
SameRatio(p, a, q, b) == 2 * Abs(p * a - q * b) <= a + b

\* C16: for odds above 1.0 the three probabilities sum to 1 and the ratio
\* of any two of them is the ratio of the inverse odds, each up to the
\* rounding of the three probabilities to the nearest unit.
C16_ImpliedProbsNormalised ==
    implied # None =>
        LET p == Val(implied)
        IN  /\ Abs(p[1] + p[2] + p[3] - SC) <= 1
            /\ \A i \in 1..3 : p[i] > 0 /\ p[i] < SC
            /\ SameRatio(p[1], odds.home_odds, p[3], odds.away_odds)
            /\ SameRatio(p[1], odds.home_odds, p[2], odds.draw_odds)
            /\ SameRatio(p[2], odds.draw_odds, p[3], odds.away_odds)

\* A favourite at home against a long shot, with a bookmaker's margin.
C16_Witness ==
    /\ implied # None
    /\ odds.home_odds <= 15
    /\ odds.draw_odds > odds.home_odds
    /\ odds.away_odds >= 80
    /\ Val(implied)[1] > Val(implied)[2]
    /\ Val(implied)[2] > Val(implied)[3]

-----------------------------------------------------------------------------
(* Composition of calculate_overall_rating (checked under SpecRating)      *)

\* B: the base rating of the team
BaseOfTeam == calculate_base_team_rating(squad, all_teams, power_rating)

\* m: the rating multiplier of the assessment, 1.0 without an assessment
ManagerMultiplier == IF assessment THEN rating_multiplier(cache) ELSE SC

\* B * m, the rating after the manager multiplier
PostManager == MulFx(BaseOfTeam, ManagerMultiplier)

\* h at a rating
HomeAt(rating) ==
    calculate_home_advantage_multiplier(team_name, rating, home_config)

\* C17: the overall rating is min(100, B * m * h) rounded to one decimal,
\* where B is the base rating, m the assessment's rating multiplier (1.0
\* when there is no assessment) and h the home-advantage multiplier at
\* B * m.
C17_OverallIsProduct ==
    overall_rating # None =>
        Val(overall_rating) =
            RoundDiv(Min(100 * SC, MulFx(PostManager, HomeAt(PostManager))),
                     1000) * 1000

\* An overall rating below the cap of a host with an assessment, for which
\* the multiplier at B * m differs from the multiplier at B and the product
\* with the multiplier at B is more than 0.1 away.
C17_Witness ==
    /\ overall_rating # None
    /\ assessment
    /\ team_name \in HOST_NATIONS
    /\ ManagerMultiplier # SC
    /\ HomeAt(PostManager) # HomeAt(BaseOfTeam)
    /\ Val(overall_rating) < 100 * SC
    /\ Abs(Val(overall_rating)
            - MulFx(PostManager, HomeAt(BaseOfTeam))) > 1000

-----------------------------------------------------------------------------
(* One call of _find_connected_component on a set of teams and a symmetric *)
(* adjacency map                                                           *)

MaxTeams == 4

BfsTeamPool == {<<"A", "B", "C", "D", "E", "F">>[k] : k \in 1..MaxTeams}

\* The pairs of distinct teams of a set
Pairs(S) == {e \in SUBSET S : Cardinality(e) = 2}

\* The adjacency map of a set of pairs, with the given teams as keys
Adjacency(keys, edges) ==
    [t \in keys |-> {u \in keys : {t, u} \in edges}]

\* The teams with at least one neighbour
Matched(edges) == UNION edges

\* A set of teams, an order in which the set is iterated, and a symmetric
\* adjacency map whose keys are all the teams (a defaultdict that was
\* read for each of them) or only the teams that have a neighbour.
InitComponent ==
    /\ tie = 0
    /\ NoManager /\ NoTeam /\ NoHome /\ NoFit
    /\ NoPower /\ NoSquad /\ NoOdds /\ NoExtra
    /\ bfs_teams \in SUBSET BfsTeamPool
    /\ bfs_order \in Orders(bfs_teams)
    /\ \E edges \in SUBSET Pairs(bfs_teams) :
          bfs_matchups \in {Adjacency(bfs_teams, edges),
                            Adjacency(Matched(edges), edges)}
    /\ bfs_result = None

FindConnectedComponent ==
    /\ bfs_result = None
    /\ bfs_result' = Some(find_connected_component(bfs_order, bfs_matchups))
    /\ UNCHANGED <<tie, mgrVars, teamVars, homeVars, fitVars, powerVars,
                   squadVars, oddsVars, bfs_teams, bfs_order, bfs_matchups,
                   extraVars>>

NextComponent == FindConnectedComponent

SpecComponent == InitComponent /\ [][NextComponent]_vars

\* The teams next to a team in the undirected graph
NextTo(t) == IF t \in DOMAIN bfs_matchups THEN bfs_matchups[t] ELSE {}

\* The teams that can be reached from a set of teams
RECURSIVE ReachFrom(_)
ReachFrom(S) ==
    LET S2 == S \cup UNION {NextTo(t) : t \in S}
    IN  IF S2 = S THEN S ELSE ReachFrom(S2)

\* C19: for every set of teams and every symmetric adjacency map the set
\* returned by _find_connected_component is a connected component of the
\* undirected graph (every member is reachable from every other and no
\* neighbour of a member is left out) and no component has more members;
\* for an empty set of teams it is the empty set.
C19_LargestComponent ==
    bfs_result # None =>
        LET r == Val(bfs_result)
        IN  IF bfs_teams = {} THEN r = {}
            ELSE /\ r # {}
                 /\ r \subseteq bfs_teams
                 /\ \A t \in r : ReachFrom({t}) = r
                 /\ \A t \in r : NextTo(t) \subseteq r
                 /\ \A t \in bfs_teams :
                       Cardinality(ReachFrom({t})) <= Cardinality(r)

\* A component of three teams returned from a graph with a team outside
\* it that is iterated first and is no key of the adjacency map.
C19_Witness ==
    /\ bfs_result # None
    /\ Cardinality(Val(bfs_result)) = 3
    /\ bfs_order[1] \notin Val(bfs_result)
    /\ bfs_order[1] \notin DOMAIN bfs_matchups

-----------------------------------------------------------------------------
(* Order of the updates within one sweep (checked under SpecFit)           *)

\* The strengths after a sweep over the teams in the given order
AfterSweep(order) == normalize(sweep(order, team_matches, lam, EmptyMap))

\* C20: within one sweep each team's new strength is computed from the
\* strengths of the previous sweep alone, so the strengths after the sweep
\* are the same for every order in which the teams are updated.
C20_OrderIndependentSweep ==
    (pc = "loop" /\ connected # {}) =>
        \A order \in Orders(connected) :
            /\ \A team \in connected :
                  sweep(order, team_matches, lam, EmptyMap)[team]
                      = team_update(team_matches, lam, team)
            /\ AfterSweep(order)
                  = normalize([team \in connected |->
                                team_update(team_matches, lam, team)])

\* A third sweep about to start on three connected teams of three
\* different strengths.
C20_Witness ==
    /\ pc = "loop"
    /\ iteration >= 2
    /\ iteration < max_iterations
    /\ Cardinality(connected) >= 3
    /\ \E a, b, c \in connected :
          lam[a] < lam[b] /\ lam[b] < lam[c]

-----------------------------------------------------------------------------
(* One call of adjust_for_home_advantage on three probabilities            *)

\* Probabilities from -0.12 to 1.0 in steps of 0.04, and values next to the
\* floor of the home probability.
ProbGrid == {k * 400 : k \in -3..25} \cup {500, 700, 1100, 1199, 1201}

InitAdjust ==
    /\ tie = 0
    /\ NoManager /\ NoTeam /\ NoHome /\ NoFit
    /\ NoPower /\ NoSquad /\ NoOdds /\ NoComponent /\ NoCompare
    /\ adj_probs \in [home_prob : ProbGrid, away_prob : ProbGrid,
                      draw_prob : ProbGrid]
    /\ adj_pair = None

AdjustForHomeAdvantage ==
    /\ adj_pair = None
    /\ adj_pair' = Some(adjust_for_home_advantage(adj_probs.home_prob,
                            adj_probs.away_prob, adj_probs.draw_prob))
    /\ UNCHANGED <<tie, mgrVars, teamVars, homeVars, fitVars, powerVars,
                   squadVars, oddsVars, componentVars, adj_probs,
                   compareVars>>

NextAdjust == AdjustForHomeAdvantage

SpecAdjust == InitAdjust /\ [][NextAdjust]_vars

\* The neutral home probability as claimed: lowered by 0.07, not below 0.05
ClaimedNeutralHome == Max(500, adj_probs.home_prob - 700)

\* The mass removed from the home probability
RemovedMass == adj_probs.home_prob - ClaimedNeutralHome

\* The decisive mass as claimed: the neutral home probability, and the
\* away probability with one half of the removed mass (in half units)
ClaimedDecisive2 == 2 * ClaimedNeutralHome + 2 * adj_probs.away_prob + RemovedMass

\* C21: the home probability is lowered by 0.07 with a floor of 0.05, away
\* and draw each get one half of the mass removed from home, so the three
\* neutral probabilities sum to the total of the inputs; the pair returned
\* is the neutral home and away probabilities divided by their sum, and
\* (0.5, 0.5) when that sum is not positive.
C21_RemovedMassReassigned ==
    adj_pair # None =>
        IF ClaimedDecisive2 <= 0
        THEN Val(adj_pair) = << SC \div 2, SC \div 2 >>
        ELSE /\ Val(adj_pair)[1]
                    = DivR(2 * ClaimedNeutralHome * SC, ClaimedDecisive2)
             /\ Val(adj_pair)[2]
                    = DivR((2 * adj_probs.away_prob + RemovedMass) * SC,
                           ClaimedDecisive2)

-----------------------------------------------------------------------------
(* The effective probability of a match (checked under SpecPower)          *)

\* The odds probability of the home team on a neutral venue
OddsProbability(m) ==
    LET p == decimal_odds_to_implied_probs(m.home_odds, m.draw_odds,
                                           m.away_odds)
    IN  adjust_for_home_advantage(p[1], p[3], p[2])[1]

HasScores(m) == m.home_score # None /\ m.away_score # None

\* 1.0 for a home win, 0.0 for an away win, 0.5 for a draw
ResultOf(m) ==
    IF Val(m.home_score) > Val(m.away_score) THEN SC
    ELSE IF Val(m.home_score) < Val(m.away_score) THEN 0
    ELSE SC \div 2

\* 0.6 * result + 0.4 * odds probability, or the odds probability alone
Blend(m) ==
    IF HasScores(m)
    THEN DivR(6000 * ResultOf(m) + 4000 * OddsProbability(m), SC)
    ELSE OddsProbability(m)

\* C22: for every odds-valid match the effective probability passed to the
\* fit is 0.6 * result + 0.4 * odds probability when both scores are
\* present and the odds probability alone when a score is missing, clamped
\* so that it lies within [0.05, 0.95].
C22_EffectiveProbability ==
    rankings # None =>
        \A k \in DOMAIN matches :
            LET m == match_odds_list[KeptAt(k)]
            IN  /\ matches[k].prob_a >= 500
                /\ matches[k].prob_a <= 9500
                /\ matches[k].prob_a = Max(500, Min(9500, Blend(m)))

\* A call that passed to the fit a match whose blend is above 0.95 and a
\* match with a single score.
C22_Witness ==
    /\ rankings # None
    /\ \E k \in DOMAIN matches :
          /\ Blend(match_odds_list[KeptAt(k)]) > 9500
          /\ matches[k].prob_a = 9500
    /\ \E k \in DOMAIN matches :
          /\ match_odds_list[KeptAt(k)].home_score # None
          /\ match_odds_list[KeptAt(k)].away_score = None

-----------------------------------------------------------------------------
(* One call of _lambda_to_rating on a strength map                         *)

MaxRated == 3

RatedPool == {<<"A", "B", "C", "D", "E">>[k] : k \in 1..MaxRated}

\* Strengths: a negative value and zero (both below the floor 1e-10 of the
\* logarithm), the default 0.1 of a team outside the component, and values
\* below, at and above 1.0.
StrengthGrid == {-5000, 0, 1000, 5000, 10000, 23456, 80000}

InitLambda ==
    /\ tie \in {0, 1}
    /\ NoManager /\ NoTeam /\ NoHome /\ NoAux
    /\ matches = <<>>
    /\ max_iterations = 0
    /\ pc = "done"
    /\ connected = {}
    /\ team_matches = EmptyMap
    /\ lam = EmptyMap
    /\ prev_lam = EmptyMap
    /\ iteration = 0
    /\ max_change = None
    /\ \E S \in SUBSET RatedPool : \E l \in [S -> StrengthGrid] :
          strengths = Some(l)
    /\ ratings = None

NextLambda == LambdaToRating

SpecLambda == InitLambda /\ [][NextLambda]_vars

\* The rating scale on the strengths f of the teams
RatingScale(f, r) ==
    /\ DOMAIN r = DOMAIN f
    /\ IF \A s, t \in DOMAIN f : f[s] = f[t]
       THEN \A t \in DOMAIN f : r[t] = 50 * SC
       ELSE \A t \in DOMAIN f :
              /\ r[t] >= 10 * SC
              /\ r[t] <= 95 * SC
              /\ (\A s \in DOMAIN f : f[t] <= f[s]) => r[t] = 10 * SC
              /\ (\A s \in DOMAIN f : f[t] >= f[s]) => r[t] = 95 * SC
              /\ \A s \in DOMAIN f : f[s] > f[t] => r[s] >= r[t]

FlooredStrengths ==
    [t \in DOMAIN Val(strengths) |->
        IF Val(strengths)[t] >= 1 THEN Val(strengths)[t] ELSE 0]

-----------------------------------------------------------------------------
(* The scale of the home advantage (checked under SpecHome)                *)

\* The scale claimed for a base rating
ClaimedScale(rating) ==
    CASE rating >= 70 * SC -> SC
      [] rating >= 55 * SC /\ rating < 70 * SC
            -> 7000 + (2 * (rating - 55 * SC)) \div 100
      [] rating >= 40 * SC /\ rating < 55 * SC
            -> 4000 + (2 * (rating - 40 * SC)) \div 100
      [] rating < 40 * SC -> 3000

\* C24: for a host under an enabled config the multiplier is
\* 1 + base_advantage * scale, with scale 1.0 for a base rating of 70 or
\* more, 0.7 + (rating - 55) * 0.02 within [55, 70), 0.4 + (rating - 40) *
\* 0.02 within [40, 55) and 0.3 below 40; with a disabled or absent config
\* the multiplier is 1.0 also for hosts.
C24_ScaleBands ==
    (ha_multiplier # None /\ team_name \in HOST_NATIONS) =>
        IF home_config = None \/ ~Val(home_config).enabled
        THEN Val(ha_multiplier) = SC
        ELSE Val(ha_multiplier)
                = SC + MulFx(ClaimedScale(ha_rating),
                             Val(home_config).base_advantage)

\* The multiplier of a host rated exactly 40 under an enabled config with
\* a positive advantage: the scale is 0.4.
C24_Witness ==
    /\ ha_multiplier # None
    /\ team_name \in HOST_NATIONS
    /\ home_config # None
    /\ Val(home_config).enabled
    /\ Val(home_config).base_advantage > 0
    /\ ha_rating = 40 * SC
    /\ Val(ha_multiplier)
          = SC + MulFx(4000, Val(home_config).base_advantage)

-----------------------------------------------------------------------------
(* One read of experience_score on a career history                        *)

MaxCareer == 2

\* Career entries: finished ones of several years and of five years or
\* less, one that began and ended in the same year, and ongoing ones.
ExperiencePool ==
    {CareerEntry("Porto", "Head Coach", 2002, 2010, "club_top"),
     CareerEntry("Lyon", "Head Coach", 2019, 2021, "club_mid"),
     CareerEntry("Leeds", "Head Coach", 2022, 2022, "club_lower"),
     CareerEntry("Ghana U20", "Head Coach", 2016, 2019, "youth"),
     CareerEntry("Spain", "Head Coach", 2023, 0, "international_senior"),
     CareerEntry("Japan", "Assistant Coach", 2012, 0, "international_senior")}

InitExperience ==
    /\ tie = 0
    /\ \E n \in 0..MaxCareer : career_history \in [1..n -> ExperiencePool]
    /\ honours = <<>>
    /\ recent_tournament_results = <<>>
    /\ fifa_ranking_at_appointment = 50
    /\ tenure_days = None
    /\ current_year \in {2026, 2027}
    /\ current_fifa_ranking = 50
    /\ cache = EmptyCache
    /\ read = None
    /\ changes = 0
    /\ NoTeam /\ NoHome /\ NoFit /\ NoAux

NextExperience == ReadExperience

SpecExperience == InitExperience /\ [][NextExperience]_vars

\* The duration in years of a career entry: its end year, the current year
\* when ongoing, minus its start year, as total_years_managing sums it
DurationYears(e) ==
    Max(0, (IF e.end_year # 0 THEN e.end_year ELSE current_year)
            - e.start_year)

YearsManaging ==
    SeqSum([i \in DOMAIN career_history |-> DurationYears(career_history[i])])

ClaimedCaliber ==
    Min(25 * SC,
        (3 * SeqSum([i \in DOMAIN career_history |->
                LEVEL_WEIGHT(career_history[i].level)
                    * Min(DurationYears(career_history[i]), 5)])) \div 2)

\* C25: the experience score is min(100, min(50, years_managing * 2.5)
\* + min(25, roles * 3.125) + caliber) with caliber = min(25, 1.5 * sum
\* over the career entries of level_weight * min(duration_years, 5)),
\* where duration_years of an entry is its end year (the current year when
\* ongoing) minus its start year, the duration that years_managing sums.
C25_ExperienceScore ==
    (read # None /\ Val(read).property = "experience") =>
        Val(read).value =
            Min(100 * SC,
                Min(50 * SC, YearsManaging * 25000)
                + Min(25 * SC, Len(career_history) * 31250)
                + ClaimedCaliber)

-----------------------------------------------------------------------------
(* The blend of calculate_base_team_rating (checked under SpecRating)      *)

\* The three squad scores of the team
ValueScore ==
    value_score(total_market_value(squad),
                [i \in DOMAIN all_teams |->
                    total_market_value(all_teams[i].squad)])

CapsScore == caps_score(average_caps(squad))

BalanceScore == balance_score(squad)

\* The blend in hundredths: the weights are percentages
BlendWithoutPower == 50 * ValueScore + 30 * CapsScore + 20 * BalanceScore

BlendWithPower ==
    35 * ValueScore + 20 * CapsScore + 15 * BalanceScore
        + 30 * Val(power_rating)

\* C26: the base rating is 0.50 v + 0.30 c + 0.20 b when no power rating
\* is given and 0.35 v + 0.20 c + 0.15 b + 0.30 p when a power rating p is
\* given, also when p is 0; the weights of each mode sum to 1; the blend
\* is clamped to [0, 100] and rounded to one decimal.
C26_BaseBlend ==
    /\ 50 + 30 + 20 = 100
    /\ 35 + 20 + 15 + 30 = 100
    /\ base_rating # None =>
          Val(base_rating) =
              RoundDiv(Clamp(0, 100 * 100 * SC,
                             IF power_rating = None THEN BlendWithoutPower
                             ELSE BlendWithPower),
                       100 * 1000) * 1000

\* A base rating computed with a power rating of 0 that is lower than the
\* blend without a power rating.
C26_Witness ==
    /\ base_rating # None
    /\ power_rating = Some(0)
    /\ 100 * Val(base_rating) + 100 * 1000 < BlendWithoutPower

-----------------------------------------------------------------------------
(* The requested names of compute_power_rankings (checked under SpecPower) *)

\* C27: when a set of requested team names is provided, no team outside
\* the set appears in the result, whatever matches it played.
C27_OnlyRequestedTeams ==
    (rankings # None /\ wc_team_names # None) =>
        DOMAIN Val(rankings) \subseteq Val(wc_team_names)

-----------------------------------------------------------------------------
(* compare_teams (src/src/analysis/composition.py): the rows "Power        *)
(* Rating", "Home Boost" and "Overall Rating" of one comparison; the rows   *)
(* of squad and manager figures are read from the same arguments and do    *)
(* not enter these three.                                                  *)

\* boost_pct of home_advantage_info, in tenths of a percent:
\* round((multiplier - 1.0) * 100, 1)
boost_pct(multiplier) == RoundDiv(multiplier - SC, 10)

\* home_advantage_info(team_name, base_rating, config): boost_label is
\* None for "N/A", else Some(boost_pct) for "+<boost_pct>%".
home_advantage_info(name, rating, config) ==
    IF config = None \/ ~Val(config).enabled \/ name \notin HOST_NATIONS
    THEN [is_host |-> name \in HOST_NATIONS, boost_pct |-> 0,
          boost_label |-> None, multiplier |-> SC]
    ELSE LET multiplier ==
                calculate_home_advantage_multiplier(name, rating, config)
         IN  [is_host |-> TRUE, boost_pct |-> boost_pct(multiplier),
              boost_label |-> Some(boost_pct(multiplier)),
              multiplier |-> multiplier]

\* power_ratings.get(team.name) if power_ratings else None
power_rating_of(power_ratings, name) ==
    IF power_ratings = None THEN None
    ELSE IF name \in DOMAIN Val(power_ratings)
         THEN Some(Val(power_ratings)[name])
         ELSE None

\* The three rows of compare_teams, each a pair (Value A, Value B);
\* mult_a and mult_b are the rating multipliers of the assessments, None
\* without an assessment.
compare_teams(team_a, team_b, mult_a, mult_b, config, power_ratings) ==
    LET field  == <<team_a, team_b>>
        pr_a   == power_rating_of(power_ratings, team_a.name)
        pr_b   == power_rating_of(power_ratings, team_b.name)
        base_a == calculate_base_team_rating(team_a.squad, field, pr_a)
        base_b == calculate_base_team_rating(team_b.squad, field, pr_b)
        info_a == home_advantage_info(team_a.name, base_a, config)
        info_b == home_advantage_info(team_b.name, base_b, config)
    IN  [power_rating   |-> <<pr_a, pr_b>>,
         home_boost     |-> <<info_a.boost_label, info_b.boost_label>>,
         overall_rating |->
            <<calculate_overall_rating(team_a.name, team_a.squad, field,
                                       mult_a, config, pr_a),
              calculate_overall_rating(team_b.name, team_b.squad, field,
                                       mult_b, config, pr_b)>>]

\* Squads of the teams compared: the full squad, none, and one player.
CompareSquadPool == {FullSquad, <<>>} \cup {<<p>> : p \in PlayerPool}

\* Rating multipliers of the assessments: none, 0.85, 1.0 and 1.15.
CompareMultiplierPool == {None, Some(8500), Some(SC), Some(11500)}

ComparePowerPool ==
    {None, Some(EmptyMap), Some([t \in {"Mexico", "Brazil"} |-> 40 * SC])}

InitCompare ==
    /\ tie \in {0, 1}
    /\ NoManager /\ NoTeam /\ NoHome /\ NoFit
    /\ NoPower /\ NoSquad /\ NoOdds /\ NoComponent /\ NoAdjust
    /\ cmp_args \in [team_a : {Team("Mexico", sq) : sq \in CompareSquadPool},
                     team_b : {Team("Brazil", sq) : sq \in {FullSquad, <<>>}},
                     mult_a : CompareMultiplierPool,
                     mult_b : {None, Some(11500)},
                     home_config : ConfigPool,
                     power_ratings : ComparePowerPool]
    /\ cmp_rows = None

CompareTeams ==
    /\ cmp_rows = None
    /\ cmp_rows' = Some(compare_teams(cmp_args.team_a, cmp_args.team_b,
                            cmp_args.mult_a, cmp_args.mult_b,
                            cmp_args.home_config, cmp_args.power_ratings))
    /\ UNCHANGED <<tie, mgrVars, teamVars, homeVars, fitVars, powerVars,
                   squadVars, oddsVars, componentVars, adjustVars, cmp_args>>

NextCompare == CompareTeams

SpecCompare == InitCompare /\ [][NextCompare]_vars

\* The boost applied to a team in the row "Overall Rating": that of the
\* multiplier at the base rating times the manager multiplier
AppliedBoost(team, mult) ==
    LET pr   == power_rating_of(cmp_args.power_ratings, team.name)
        base == calculate_base_team_rating(team.squad,
                    <<cmp_args.team_a, cmp_args.team_b>>, pr)
        post == IF mult # None THEN MulFx(base, Val(mult)) ELSE base
    IN  boost_pct(calculate_home_advantage_multiplier(team.name, post,
                                                      cmp_args.home_config))

\* The boost a label shows; "N/A" shows none
ShownBoost(label) == IF label = None THEN 0 ELSE Val(label)

\* C28: in the rows of one comparison the boost shown for a team in the
\* row "Home Boost" is the boost of the home-advantage multiplier applied
\* to that team in the row "Overall Rating", for every assessment, config
\* and power rating.
C28_ShownBoostIsApplied ==
    cmp_rows # None =>
        /\ ShownBoost(Val(cmp_rows).home_boost[1])
                = AppliedBoost(cmp_args.team_a, cmp_args.mult_a)
        /\ ShownBoost(Val(cmp_rows).home_boost[2])
                = AppliedBoost(cmp_args.team_b, cmp_args.mult_b)

-----------------------------------------------------------------------------
(* Positive strengths (checked under SpecFit)                              *)

\* The conditions on the arguments: positive prior strength and weights,
\* damping in (0, 1], effective probabilities in [0.05, 0.95]
ArgumentsInRange ==
    /\ prior_strength > 0
    /\ damping > 0 /\ damping <= SC
    /\ \A i \in DOMAIN matches :
          /\ matches[i].weight > 0
          /\ matches[i].prob_a >= 500
          /\ matches[i].prob_a <= 9500

\* C29: under these conditions every strength of the fit is strictly
\* positive after every sweep, so the denominator of an update and the sum
\* of the strengths of the two teams of a match are never zero.
C29_StrengthsPositive ==
    (ArgumentsInRange /\ pc \in {"loop", "finish", "done"}) =>
        \A t \in connected :
            /\ lam[t] > 0
            /\ denominator(team_matches, lam, t) > 0
            /\ \A i \in DOMAIN team_matches[t] :
                  lam[team_matches[t][i].team_a]
                      + lam[team_matches[t][i].team_b] > 0

\* After two sweeps or more a team that lost at 0.95 to 0.05 has a
\* strength below one half.
C29_Witness ==
    /\ pc = "loop"
    /\ iteration >= 2
    /\ \E i \in DOMAIN matches : matches[i].prob_a \in {500, 9500}
    /\ \E t \in connected : lam[t] > 0 /\ lam[t] < SC \div 2

-----------------------------------------------------------------------------
(* Matches outside the fitted component (checked under SpecPower)          *)

\* The matches handed to the fit that are played within the component
MatchesInside ==
    SelectSeq(matches, LAMBDA m : m.team_a \in connected
                                  /\ m.team_b \in connected)

\* The strengths returned for the call without the matches between teams
\* outside the component
StrengthsOfInside ==
    fit_component(MatchesInside, connected, default_max_iterations).returned

\* C30: the ratings given to the teams of the largest connected component
\* are the same whether or not the input also contains matches between
\* teams outside that component.
C30_OutsideMatchesImmaterial ==
    (rankings # None /\ matches # <<>>) =>
        \A inside \in {StrengthsOfInside} :
            \A rts \in {lambda_to_rating(inside)} :
                \A t \in connected \cap DOMAIN Val(rankings) :
                    Val(rankings)[t].rating = rts[t]

====
